---------------------------- MODULE Spec2Model ----------------------------
(***************************************************************************)
(* Model of the kad.arbitr.ru harvester (parser/src/core): the date-window *)
(* crawl of PuppeteerParser.processDateRange with searchDocuments and      *)
(* downloadPDF, and the cookie command with CookieExtractor.extractCookies *)
(* and validateCookies.                                                    *)
(*                                                                         *)
(* Text is modelled as a sequence of letters.  The source's keywords and   *)
(* titles are Cyrillic; every Cyrillic letter is written here as one ASCII *)
(* token ("sh" is the single letter sha, "ya" the single letter ya, "#"    *)
(* the numero sign), capitals as the capitalised token ("R", "ZH"), so a   *)
(* substring test on the tokens is the substring test on the letters.      *)
(*                                                                         *)
(* A Date object is its time value in ticks, TicksPerDay ticks to a day;   *)
(* a date string 'YYYY-MM-DD' is the number of its day.  The process runs  *)
(* in UTC (a container), so setDate() adds whole days to the time value.   *)
(* getApiDates, which builds a date in local time and prints it in UTC, is *)
(* modelled with the time zone as an input.                                *)
(***************************************************************************)
EXTENDS Integers, Sequences, FiniteSets, TLC

\* ------------------------------------------------------------------ bounds
MaxDay      == 2   \* date strings are the days 0..MaxDay
MaxServed   == 2   \* rows the portal returns in one run
MaxPagesArg == 2   \* largest --max_pages argument given
TicksPerDay == 2   \* resolution of a Date's time value
MaxCalls    == 3   \* calls of loadCookies and getStats on one parser
MaxYear     == 2   \* the clock of getApiDates reads a time in the years 1..MaxYear
YearDays    == 3   \* days in a year of the calendar getApiDates is checked on

\* --------------------------------------------------------- program constants
WindowDays      == 2    \* nextDate.setDate(nextDate.getDate() + 2)
DefaultMaxPages == 40   \* default of the command's max_pages
FewCookies      == 5    \* if (totalCookies < 5)
ValuePrefixLen  == 20   \* String(cookieValue).substring(0, 20)

\* ------------------------------------------------------------------- values
NaN          == 0 - 1            \* the time value of an Invalid Date
Undefined    == "undefined"      \* a missing string property or argument
UndefinedStr == <<"undefined">>  \* a missing text property (text is a sequence)

\* ---------------------------------------------------------------------- text
\* String.prototype.toLowerCase on one letter
ToLowerChar(c) ==
    CASE c = "R"  -> "r"
      [] c = "P"  -> "p"
      [] c = "O"  -> "o"
      [] c = "ZH" -> "zh"
      [] c = "A"  -> "a"
      [] c = "E"  -> "e"
      [] c = "SH" -> "sh"
      [] c = "N"  -> "n"
      [] c = "I"  -> "i"
      [] OTHER    -> c

ToLowerCase(s) == [i \in 1..Len(s) |-> ToLowerChar(s[i])]

\* String.prototype.includes
Includes(text, keyword) ==
    \E i \in 0..(Len(text) - Len(keyword)) :
        \A j \in 1..Len(keyword) : text[i + j] = keyword[j]

\* excludeKeywords of processDateRange
excludeKeywords ==
    { <<"p","e","r","e","n","o","s">>,
      <<"o","t","l","o","zh","e","n","i","e">>,
      <<"n","a","z","n","a","ch","e","n","i","e">>,
      <<"v","k","l","yu","ch","e","n","i","e"," ","v"," ","r","e","e","s","t","r">> }

\* includeKeywords of processDateRange
includeKeywords ==
    { <<"r","e","sh","e","n","i","e">>,
      <<"k","a","s","s","a","ts","i","ya">>,
      <<"o","p","r","e","d","e","l","e","n","i","e">> }

\* x || '' on a text property
OrEmpty(v) == IF v = UndefinedStr THEN <<>> ELSE v

\* `${doc.CaseNumber || ''} ${doc.Title || ''}`.toLowerCase()
DocText(doc) == ToLowerCase(OrEmpty(doc.CaseNumber) \o <<" ">> \o OrEmpty(doc.Title))

\* excludeKeywords.some(keyword => text.includes(keyword))
ShouldExclude(doc) == \E keyword \in excludeKeywords : Includes(DocText(doc), keyword)

\* mutant: every row that is not excluded is included
ShouldInclude_Always(doc) == TRUE

\* includeKeywords.some(keyword => text.includes(keyword))
ShouldInclude(doc) == \E keyword \in includeKeywords : Includes(DocText(doc), keyword)

\* ---------------------------------------------------------------- the portal
Title_Reshenie == <<"R","e","sh","e","n","i","e"," ","p","o"," ","d","e","l","u"," ","#","1","2","3">>
Title_Both     == <<"R","e","sh","e","n","i","e"," ","o"," ","p","e","r","e","n","o","s","e">>
Title_Neither  == <<"ZH","a","l","o","b","a">>
Title_Upper    == <<"O","P","R","E","d","e","l","e","N","I","E">>
Title_Kass     == <<"k","a","s","s","a","ts","i","ya">>

\* The rows the portal can return: {CaseNumber, Title, Date, DocumentUrl}
Catalogue ==
    { [CaseNumber |-> <<"A","4","0","-","1">>, Title |-> Title_Reshenie, Date |-> 0, DocumentUrl |-> "u1"],
      [CaseNumber |-> <<"A","4","0","-","3">>, Title |-> Title_Both,     Date |-> 1, DocumentUrl |-> "u3"],
      [CaseNumber |-> UndefinedStr,            Title |-> Title_Neither,  Date |-> 1, DocumentUrl |-> "u4"],
      [CaseNumber |-> <<"A","4","0","-","5">>, Title |-> Title_Upper,    Date |-> 2, DocumentUrl |-> Undefined],
      [CaseNumber |-> UndefinedStr,            Title |-> Title_Kass,     Date |-> 2, DocumentUrl |-> "u6"] }

\* --------------------------------------------------------------------- dates
DateStrings == 0..MaxDay               \* the 'YYYY-MM-DD' strings given, by the number of the day
InvalidDateString == 0 - 1             \* a string that does not parse as a date

\* new Date(string): the time value, NaN for an Invalid Date
NewDate(s) == IF s >= 0 THEN s * TicksPerDay ELSE NaN

\* date.toISOString().split('T')[0]
ToISODate(t) == t \div TicksPerDay

\* a copy of the date with setDate(getDate() + n) applied
AddDays(t, n) == t + n * TicksPerDay

\* mutant: the next window starts where this one did
NextDate_Stays(t) == t

\* mutant: the step is taken backwards
NextDate_Backwards(t) == AddDays(t, 0 - WindowDays)

\* const nextDate = new Date(currentDate); nextDate.setDate(nextDate.getDate() + 2)
NextDate(t) == AddDays(t, WindowDays)

\* currentDate <= endDateObj (a comparison with NaN is false)
DateLeq(a, b) == a # NaN /\ b # NaN /\ a <= b

\* --max_pages as parseArgs leaves it: absent, a string that is no number, or
\* the string of an integer
MaxPagesArgs ==
    { [kind |-> "absent", n |-> 0], [kind |-> "text", n |-> 0] }
        \cup { [kind |-> "int", n |-> k] : k \in (0 - 1)..MaxPagesArg }

\* parseInt(args.max_pages) || 40  (NaN and 0 are falsy)
MaxPagesOf(arg) ==
    IF arg.kind = "int" /\ arg.n # 0 THEN arg.n ELSE DefaultMaxPages

\* ----------------------------------------------------------------- the state
VARIABLES
    pc,           \* where processDateRange stands
    startDate,    \* argument startDate (a date string)
    endDate,      \* argument endDate
    max_pages,    \* args.max_pages of the command
    maxPages,     \* argument maxPages
    currentDate,  \* let currentDate (time value)
    endDateObj,   \* const endDateObj (time value)
    page,         \* the page loop's counter
    response,     \* response.data of the page being processed
    idx,          \* position of the for..of loop in response.data
    results,      \* const results = []
    metadata,     \* docsDir/metadata.json (<<>> while absent, else <<content>>)
    now,          \* Date.now()
    inflight,     \* network operations awaited and not yet returned
    served,       \* rows the portal has returned in this run
    caught,       \* times the catch block of the window loop has run
    log,          \* history: the operations on the page, in order
    origin,       \* history: for each entry of results, where its row came from
    xpc,          \* where the cookie extractor stands
    extracted_cookies,  \* CookieExtractor.extracted_cookies: name -> value
    validation,   \* what validateCookies returned (<<>> before the call)
    cookies_file, \* auto_extracted_cookies.json (<<>> while absent, else <<content>>)
    result,       \* the JSON the cookie command printed (<<>> before it prints)
    xlog,         \* history: what extractCookies did on the page, in order
    cpc,          \* where the parser command stands
    args,         \* what parseArgs returned
    browser,      \* parser.browser: "null", "open" or "closed"
    cookies,      \* parser.cookies (<<>> while null, else <<map>>)
    pageCookies,  \* the cookies set on parser.page
    stdout,       \* the JSON objects the parser command printed, in order
    exitCode,     \* the exit code of the process of the parser command
    ops           \* history: the parser operations awaited and how they ended

crawlVars == << pc, startDate, endDate, max_pages, maxPages, currentDate,
                endDateObj, page, response, idx, results, metadata, now,
                inflight, served, caught, log, origin >>

extractorVars == << xpc, extracted_cookies, validation, cookies_file, result, xlog >>

\* the call of getApiDates: its arguments, the clock, the time zone
\* and the object returned (<<>> before the first call)
VARIABLE apiDates

commandVars == << cpc, args, browser, cookies, pageCookies, stdout, exitCode, ops >>

vars == << crawlVars, extractorVars, commandVars, apiDates >>

Ev(op, from, to, pg, url, ms) ==
    [op |-> op, from |-> from, to |-> to, page |-> pg, url |-> url, ms |-> ms,
     error |-> ""]

EvGoto           == Ev("goto", 0, 0, 0, "kad.arbitr.ru", 0)
EvWait(ms)       == Ev("wait", 0, 0, 0, "", ms)
EvSearch(params) == Ev("search", params.DateFrom, params.DateTo, params.Page, "SearchInstances", 0)
EvDownload(url)  == Ev("download", 0, 0, 0, url, 0)
EvRows(n)        == Ev("rows", 0, 0, n, "SearchInstances", 0)    \* the POST returned n rows
\* searchDocuments threw error
EvFailed(error)  == [Ev("failed", 0, 0, 0, "SearchInstances", 0) EXCEPT !.error = error]
EvSaved(url)     == Ev("saved", 0, 0, 0, url, 0)                 \* downloadPDF returned a path
\* downloadPDF caught error and returned null
EvNull(url, error) == [Ev("null", 0, 0, 0, url, 0) EXCEPT !.error = error]

\* what searchDocuments can throw: `HTTP ${response.status}` for a response
\* that is not ok (400 a bad request, 401 a session no longer recognised,
\* 500 a server error) and the timeout of page.goto or of the request
SearchErrors == { "HTTP 400", "HTTP 401", "HTTP 500", "timeout" }

\* what downloadPDF can catch: a response that is not ok, and an exception
\* while fetching the body or writing the file
DownloadErrors == { "HTTP 404", "exception" }

\* const searchParams = {Page, Count, DateFrom, DateTo, ...} with Page = page
SearchParams ==
    [Page     |-> page,
     Count    |-> 25,
     DateFrom |-> ToISODate(currentDate),
     DateTo   |-> ToISODate(NextDate(currentDate))]

\* mutant: the length of data is not tested
IsEmptyPage_NoLengthTest(resp) == resp.isNull \/ ~resp.hasData

\* !response || !response.data || response.data.length === 0
IsEmptyPage(resp) == resp.isNull \/ ~resp.hasData \/ Len(resp.data) = 0

\* what the search endpoint can answer with k more rows to serve
SeqsUpTo(S, n) == UNION { [1..k -> S] : k \in 0..n }

Responses(k) ==
    { [isNull |-> TRUE, hasData |-> FALSE, data |-> <<>>],
      [isNull |-> FALSE, hasData |-> FALSE, data |-> <<>>] }
        \cup { [isNull |-> FALSE, hasData |-> TRUE, data |-> d] : d \in SeqsUpTo(Catalogue, k) }

\* `${doc.CaseNumber || 'unknown'}_${Date.now()}.pdf` under docsDir
Filename(doc, t) ==
    << IF OrEmpty(doc.CaseNumber) = <<>> THEN <<"unknown">> ELSE doc.CaseNumber, t >>

\* the object pushed to results
Entry(doc, filepath) ==
    [caseNumber |-> doc.CaseNumber, title |-> doc.Title, date |-> doc.Date,
     url |-> doc.DocumentUrl, filepath |-> filepath]

\* mutant: total_documents is not the length of documents
Metadata_WrongTotal(t, docs) ==
    [processed_at |-> t, total_documents |-> Len(docs) + 1, documents |-> docs]

\* JSON written to metadata.json
Metadata(t, docs) ==
    [processed_at |-> t, total_documents |-> Len(docs), documents |-> docs]

Init ==
    /\ pc = "idle"
    /\ startDate = 0 /\ endDate = 0
    /\ max_pages = [kind |-> "absent", n |-> 0] /\ maxPages = 0
    /\ currentDate = 0 /\ endDateObj = 0
    /\ page = 0 /\ response = <<>> /\ idx = 0
    /\ results = <<>> /\ metadata = <<>>
    /\ now = 0 /\ inflight = 0 /\ served = 0 /\ caught = 0
    /\ log = <<>> /\ origin = <<>>
    /\ xpc = "new"
    /\ extracted_cookies = << >>      \* this.extracted_cookies = {}
    /\ validation = << >>
    /\ cookies_file = << >>
    /\ result = << >>
    /\ xlog = << >>
    /\ cpc = "idle"
    /\ args = [command |-> "help", cookies_file |-> "absent", params |-> FALSE,
               dates |-> FALSE]
    /\ browser = "null"
    /\ cookies = << >>
    /\ pageCookies = {}
    /\ stdout = << >>
    /\ exitCode = 0
    /\ ops = << >>
    /\ apiDates = << >>

\* ------------------------------------------------- processDateRange, by step
\* A step runs from one await to the next: JavaScript runs the code between two
\* awaits to completion, and the only awaits are the network operations (goto,
\* the POST, the download) and the timers.  A timer is part of the step it ends.

\* mutant: a row without DocumentUrl is downloaded as well
Downloadable_NoUrlTest(doc) ==
    ~ShouldExclude(doc) /\ ShouldInclude(doc)

\* mutant: the exclude keywords are not consulted
Downloadable_NoExclude(doc) ==
    ShouldInclude(doc) /\ doc.DocumentUrl # Undefined

\* shouldExclude is false and (shouldInclude && doc.DocumentUrl) holds
Downloadable(doc) ==
    /\ ~ShouldExclude(doc)
    /\ ShouldInclude(doc) /\ doc.DocumentUrl # Undefined

\* the for..of loop from position i on: the first row downloadPDF is called for
FirstDownload(data, i) ==
    LET C == { j \in i..Len(data) : Downloadable(data[j]) }
    IN  IF C = {} THEN Len(data) + 1 ELSE CHOOSE j \in C : \A k \in C : j <= k

\* while (currentDate <= endDateObj) with currentDate = cd, endDateObj = endObj
\* and results = res: the loop body starts with page = 1, or the loop is left,
\* metadata.json is written and results returned
WindowLoop(cd, endObj, res) ==
    /\ currentDate' = cd
    /\ IF DateLeq(cd, endObj)
         THEN /\ page' = 1
              /\ pc' = "page"
              /\ UNCHANGED metadata
         ELSE /\ metadata' = << Metadata(now, res) >>
              /\ pc' = "done"
              /\ UNCHANGED page

\* the command processDateRange: maxPages = parseInt(args.max_pages) || 40, then
\* processDateRange(start_date, end_date, maxPages) up to its first await
Call(start_date, end_date, arg) ==
    /\ pc = "idle"
    /\ startDate' = start_date
    /\ endDate' = end_date
    /\ max_pages' = arg
    /\ maxPages' = MaxPagesOf(arg)
    /\ results' = <<>>
    /\ origin' = <<>>
    /\ endDateObj' = NewDate(end_date)
    /\ WindowLoop(NewDate(start_date), NewDate(end_date), <<>>)
    /\ UNCHANGED << response, idx, now, inflight, served, caught, log >>
    /\ UNCHANGED << extractorVars, commandVars, apiDates >>

\* mutant: the page loop runs one page too far
PageLoopTest_OffByOne(p, cap) == p <= cap + 1

\* the test of for (let page = 1; page <= maxPages; page++)
PageLoopTest(p, cap) == p <= cap

\* for (page = 1; page <= maxPages; page++) ends without a break;
\* currentDate = nextDate
PagesExhausted ==
    /\ pc = "page"
    /\ ~PageLoopTest(page, maxPages)
    /\ response' = <<>>     \* the previous iteration's response has left scope
    /\ idx' = 0
    /\ WindowLoop(NextDate(currentDate), endDateObj, results)
    /\ UNCHANGED << startDate, endDate, max_pages, maxPages, endDateObj, results, now,
                    inflight, served, caught, log, origin >>
    /\ UNCHANGED << extractorVars, commandVars, apiDates >>

\* mutant: searchDocuments does not wait before the POST
SearchSend_NoWait ==
    /\ pc = "page"
    /\ PageLoopTest(page, maxPages)
    /\ log' = log \o << EvGoto, EvSearch(SearchParams) >>
    /\ inflight' = inflight + 1
    /\ response' = <<>>
    /\ idx' = 0
    /\ pc' = "searching"
    /\ UNCHANGED << startDate, endDate, max_pages, maxPages, currentDate, endDateObj, page,
                    results, metadata, now, served, caught, origin >>
    /\ UNCHANGED << extractorVars, commandVars, apiDates >>

\* searchDocuments: goto, waitForTimeout(2000), then the POST is issued
SearchSend ==
    /\ pc = "page"
    /\ PageLoopTest(page, maxPages)
    /\ log' = log \o << EvGoto, EvWait(2000), EvSearch(SearchParams) >>
    /\ inflight' = inflight + 1
    /\ response' = <<>>     \* the previous iteration's response has left scope
    /\ idx' = 0
    /\ pc' = "searching"
    /\ UNCHANGED << startDate, endDate, max_pages, maxPages, currentDate, endDateObj, page,
                    results, metadata, now, served, caught, origin >>
    /\ UNCHANGED << extractorVars, commandVars, apiDates >>

\* mutant: a failed search discards the cookies loaded
SearchThrows_DropsSession(error) ==
    /\ pc = "searching"
    /\ inflight' = inflight - 1
    /\ caught' = caught + 1
    /\ log' = Append(log, EvFailed(error))
    /\ WindowLoop(NextDate(currentDate), endDateObj, results)
    /\ cookies' = << >>
    /\ UNCHANGED << startDate, endDate, max_pages, maxPages, endDateObj, response, idx,
                    results, now, served, origin >>
    /\ UNCHANGED << extractorVars, cpc, args, browser, pageCookies, stdout, exitCode, ops,
                    apiDates >>

\* mutant: the error of searchDocuments leaves processDateRange
SearchThrows_Aborts(error) ==
    /\ pc = "searching"
    /\ inflight' = inflight - 1
    /\ log' = Append(log, EvFailed(error))
    /\ pc' = "done"
    /\ UNCHANGED << startDate, endDate, max_pages, maxPages, currentDate, endDateObj,
                    page, response, idx, results, metadata, now, served, caught, origin >>
    /\ UNCHANGED << extractorVars, commandVars, apiDates >>

\* searchDocuments throws (the POST fails, !response.ok, a timeout) and
\* rethrows from its catch; the catch block of the window runs;
\* currentDate = nextDate
SearchThrows(error) ==
    /\ pc = "searching"
    /\ inflight' = inflight - 1
    /\ caught' = caught + 1
    /\ log' = Append(log, EvFailed(error))
    /\ WindowLoop(NextDate(currentDate), endDateObj, results)
    /\ UNCHANGED << startDate, endDate, max_pages, maxPages, endDateObj, response, idx,
                    results, now, served, origin >>
    /\ UNCHANGED << extractorVars, commandVars, apiDates >>

\* the for..of loop over data from position i, with `returned` network
\* operations just returned and lg the log so far: up to the next downloadPDF,
\* or to the end of the page (waitForTimeout(2000), page++)
ProcessRows(data, i, lg, returned) ==
    LET j == FirstDownload(data, i) IN
    IF j <= Len(data)
    THEN /\ response' = data
         /\ idx' = j
         /\ log' = Append(lg, EvDownload(data[j].DocumentUrl))
         /\ now' = now + 1
         /\ inflight' = inflight - returned + 1
         /\ pc' = "downloading"
         /\ UNCHANGED << page, currentDate, metadata >>
    ELSE /\ response' = data
         /\ idx' = j
         /\ log' = Append(lg, EvWait(2000))
         /\ page' = page + 1
         /\ inflight' = inflight - returned
         /\ pc' = "page"
         /\ UNCHANGED << now, currentDate, metadata >>

\* the POST returns resp: an empty page breaks out of the page loop
\* (currentDate = nextDate), any other page is processed row by row
SearchReturns(resp) ==
    /\ pc = "searching"
    /\ IF IsEmptyPage(resp)
         THEN /\ inflight' = inflight - 1
              /\ log' = Append(log, EvRows(0))
              /\ WindowLoop(NextDate(currentDate), endDateObj, results)
              /\ UNCHANGED << response, idx, served, now >>
         ELSE /\ served' = served + Len(resp.data)
              /\ ProcessRows(resp.data, 1, Append(log, EvRows(Len(resp.data))), 1)
    /\ UNCHANGED << startDate, endDate, max_pages, maxPages, endDateObj, results, caught,
                    origin >>
    /\ UNCHANGED << extractorVars, commandVars, apiDates >>

\* downloadPDF returns the path of the written file: the entry is pushed,
\* waitForTimeout(1000), and the loop goes on
DownloadOk ==
    /\ pc = "downloading"
    /\ LET doc == response[idx] IN
         results' = Append(results, Entry(doc, Filename(doc, now)))
    /\ origin' = Append(origin, [from |-> ToISODate(currentDate), page |-> page, pos |-> idx])
    /\ ProcessRows(response, idx + 1,
                   log \o << EvSaved(response[idx].DocumentUrl), EvWait(1000) >>, 1)
    /\ UNCHANGED << startDate, endDate, max_pages, maxPages, endDateObj, served, caught >>
    /\ UNCHANGED << extractorVars, commandVars, apiDates >>

\* mutant: the error of downloadPDF reaches the catch block of the window
DownloadFails_Throws(error) ==
    /\ pc = "downloading"
    /\ inflight' = inflight - 1
    /\ caught' = caught + 1
    /\ log' = Append(log, EvNull(response[idx].DocumentUrl, error))
    /\ WindowLoop(NextDate(currentDate), endDateObj, results)
    /\ UNCHANGED << startDate, endDate, max_pages, maxPages, endDateObj, response, idx,
                    results, now, served, origin >>
    /\ UNCHANGED << extractorVars, commandVars, apiDates >>

\* downloadPDF catches its error and returns null: nothing is pushed,
\* waitForTimeout(1000), and the loop goes on
DownloadFails(error) ==
    /\ pc = "downloading"
    /\ ProcessRows(response, idx + 1,
                   log \o << EvNull(response[idx].DocumentUrl, error), EvWait(1000) >>, 1)
    /\ UNCHANGED << startDate, endDate, max_pages, maxPages, endDateObj, results, served,
                    caught, origin >>
    /\ UNCHANGED << extractorVars, commandVars, apiDates >>

Next ==
    \/ \E s \in DateStrings \cup {InvalidDateString},
          e \in DateStrings \cup {InvalidDateString},
          m \in MaxPagesArgs : Call(s, e, m)
    \/ PagesExhausted
    \/ SearchSend
    \/ \E error \in SearchErrors : SearchThrows(error)
    \/ \E resp \in Responses(MaxServed - served) : SearchReturns(resp)
    \/ DownloadOk
    \/ \E error \in DownloadErrors : DownloadFails(error)

Spec == Init /\ [][Next]_vars

\* the same run where every awaited call settles: the network operation in
\* flight returns or fails, and the code between two awaits runs to its end
SpecLive == Init /\ [][Next]_vars /\ WF_vars(Next)

\* ------------------------------------------------------- a run that is stopped
\* The process is sent a termination signal.  No handler is registered by
\* the command or by the parser, so the process ends where it stands: the
\* operation awaited is abandoned and nothing more is written.
Stop ==
    /\ pc \in { "page", "searching", "downloading" }
    /\ pc' = "stopped"
    /\ UNCHANGED << startDate, endDate, max_pages, maxPages, currentDate, endDateObj,
                    page, response, idx, results, metadata, now, inflight, served,
                    caught, log, origin >>
    /\ UNCHANGED << extractorVars, commandVars, apiDates >>

NextStop ==
    \/ Next
    \/ Stop

SpecStop == Init /\ [][NextStop]_vars

\* ---------------------------------------------- a run on a docsDir used before
\* the ledgers an earlier run of processDateRange, at time 0, left in docsDir:
\* one document downloaded
PriorLedgers ==
    { Metadata(0, << Entry(doc, Filename(doc, 0)) >>) :
          doc \in { d \in Catalogue : Downloadable(d) } }

\* the state after construction when docsDir holds the metadata.json of an
\* earlier run
InitRerun ==
    /\ pc = "idle"
    /\ startDate = 0 /\ endDate = 0
    /\ max_pages = [kind |-> "absent", n |-> 0] /\ maxPages = 0
    /\ currentDate = 0 /\ endDateObj = 0
    /\ page = 0 /\ response = <<>> /\ idx = 0
    /\ results = <<>>
    /\ \E ledger \in PriorLedgers : metadata = << ledger >>
    /\ now = 1 /\ inflight = 0 /\ served = 0 /\ caught = 0
    /\ log = <<>> /\ origin = <<>>
    /\ xpc = "new"
    /\ extracted_cookies = << >>
    /\ validation = << >>
    /\ cookies_file = << >>
    /\ result = << >>
    /\ xlog = << >>
    /\ cpc = "idle"
    /\ args = [command |-> "help", cookies_file |-> "absent", params |-> FALSE,
               dates |-> FALSE]
    /\ browser = "null"
    /\ cookies = << >>
    /\ pageCookies = {}
    /\ stdout = << >>
    /\ exitCode = 0
    /\ ops = << >>
    /\ apiDates = << >>

SpecRerun == InitRerun /\ [][Next]_vars

\* ------------------------------------- a run against a portal with a fixed plan
\* The range is day 0 .. day 4 (2024-01-01 .. 2024-01-05).  For every window
\* the portal answers page 1 with two rows, one whose text has an include
\* keyword only and one whose text has an exclude keyword, in either order,
\* and every later page with no rows; every download succeeds.
Title_Otlozhenie == <<"O","t","l","o","zh","e","n","i","e"," ","d","e","l","a">>

\* the DocumentUrl of the row the portal has for the window starting at day d
PlanUrl(d, wanted) ==
    CASE d = 0 -> IF wanted THEN "jan01.pdf" ELSE "jan01-x.pdf"
      [] d = 2 -> IF wanted THEN "jan03.pdf" ELSE "jan03-x.pdf"
      [] OTHER -> IF wanted THEN "jan05.pdf" ELSE "jan05-x.pdf"

PlanRows(d, titles, wanted) ==
    { [CaseNumber |-> <<"A","4","0","-","1">>, Title |-> t, Date |-> d,
       DocumentUrl |-> PlanUrl(d, wanted)] : t \in titles }

\* the answers of the portal to the request for page p of the window from d
PlanResponses(d, p) ==
    IF p = 1
    THEN { [isNull |-> FALSE, hasData |-> TRUE, data |-> rows] :
             rows \in UNION { { << a, b >>, << b, a >> } :
                         a \in PlanRows(d, { Title_Reshenie, Title_Kass }, TRUE),
                         b \in PlanRows(d, { Title_Both, Title_Otlozhenie }, FALSE) } }
    ELSE { [isNull |-> FALSE, hasData |-> TRUE, data |-> <<>>] }

NextPlan ==
    \/ \E m \in { a \in MaxPagesArgs : MaxPagesOf(a) >= 1 } : Call(0, 4, m)
    \/ PagesExhausted
    \/ SearchSend
    \/ \E resp \in PlanResponses(ToISODate(currentDate), page) : SearchReturns(resp)
    \/ DownloadOk

SpecPlan == Init /\ [][NextPlan]_vars

\* ------------------------------------------------------- the cookie extractor
\* const criticalCookies = {'pr_fp': ..., 'wasm': ..., ...}, in insertion order
criticalCookies == << "pr_fp", "wasm", "PHPSESSID", "ASP.NET_SessionId" >>

\* their descriptions
Description(cookieName) ==
    CASE cookieName = "pr_fp"     -> "fingerprint"
      [] cookieName = "wasm"      -> "WebAssembly token (optional)"
      [] cookieName = "PHPSESSID" -> "PHP session (optional)"
      [] OTHER                    -> "ASP.NET session (optional)"

\* other cookies the portal sets
OtherCookies == { "_ga", "_ym_uid" }

Range(f) == { f[i] : i \in DOMAIN f }

\* cookie values: the empty string, a short one, one longer than the prefix
\* validateCookies reports
LongValue == [i \in 1..(ValuePrefixLen + 2) |-> "x"]

CookieValues == { << >>, << "a", "b" >>, LongValue }

\* the maps page.cookies() can be converted to
Jars ==
    UNION { { c @@ o : o \in { [n \in O |-> << "1" >>] : O \in SUBSET OtherCookies } }
            : c \in UNION { [D -> CookieValues] : D \in SUBSET Range(criticalCookies) } }

\* if (this.extracted_cookies[cookieName]): the property exists and its value
\* is not the empty string
Truthy(jar, cookieName) ==
    cookieName \in DOMAIN jar /\ jar[cookieName] # << >>

\* mutant: every missing critical cookie is fatal
IsPrimary_Any(cookieName) == TRUE

\* mutant: the wrong cookie is the fatal one
IsPrimary_Wasm(cookieName) == cookieName = "wasm"

\* if (cookieName === 'pr_fp')
IsPrimary(cookieName) == cookieName = "pr_fp"

\* String(cookieValue).substring(0, 20) + '...'
ValuePreview(value) ==
    SubSeq(value, 1, IF Len(value) < ValuePrefixLen THEN Len(value) ELSE ValuePrefixLen)
        \o << ".", ".", "." >>

\* one iteration of the loop over criticalCookies, on the validation object v
ValidateOne(jar, cookieName, v) ==
    IF Truthy(jar, cookieName)
    THEN [v EXCEPT !.criticalCookies =
            Append(@, [name |-> cookieName, found |-> TRUE,
                       description |-> Description(cookieName),
                       value |-> ValuePreview(jar[cookieName])])]
    ELSE IF IsPrimary(cookieName)
         THEN [v EXCEPT !.isValid = FALSE,
                        !.errors = Append(@, [missing |-> cookieName,
                                              description |-> Description(cookieName)])]
         ELSE [v EXCEPT !.warnings = Append(@, [missing |-> cookieName,
                                                description |-> Description(cookieName)])]

\* for (const [cookieName, description] of Object.entries(criticalCookies))
RECURSIVE ValidateFrom(_, _, _)
ValidateFrom(jar, i, v) ==
    IF i > Len(criticalCookies) THEN v
    ELSE ValidateFrom(jar, i + 1, ValidateOne(jar, criticalCookies[i], v))

\* mutant: too few cookies is an error
ValidateCookies_FewIsFatal(jar) ==
    LET v0 == [isValid |-> TRUE, errors |-> << >>, warnings |-> << >>,
               foundCookies |-> DOMAIN jar, criticalCookies |-> << >>]
        v1 == ValidateFrom(jar, 1, v0)
    IN  IF Cardinality(DOMAIN jar) < FewCookies
        THEN [v1 EXCEPT !.isValid = FALSE,
                        !.errors = Append(@, [missing |-> "few cookies",
                                              description |-> "anti-bot protection may be active"])]
        ELSE v1

\* validateCookies()
ValidateCookies(jar) ==
    LET v0 == [isValid |-> TRUE, errors |-> << >>, warnings |-> << >>,
               foundCookies |-> DOMAIN jar, criticalCookies |-> << >>]
        v1 == ValidateFrom(jar, 1, v0)
        totalCookies == Cardinality(DOMAIN jar)
    IN  IF totalCookies < FewCookies
        THEN [v1 EXCEPT !.warnings = Append(@, [missing |-> "few cookies",
                                                description |-> "anti-bot protection may be active"])]
        ELSE v1

\* an operation of extractCookies on the page
XEv(op, outcome, ms) == [op |-> op, outcome |-> outcome, ms |-> ms, cookies |-> << >>]

\* page.cookies() returned jar
XEvCookies(jar) == [XEv("cookies", "ok", 0) EXCEPT !.cookies = jar]

\* extractCookies, step 1: page.goto of the entry page, waitForTimeout(3000)
OpenEntry ==
    /\ xpc = "new"
    /\ xlog' = xlog \o << XEv("goto", "ok", 0), XEv("wait", "ok", 3000) >>
    /\ xpc' = "entry"
    /\ UNCHANGED << extracted_cookies, validation, cookies_file, result, crawlVars, commandVars, apiDates >>

\* step 2: the anti-bot indicators are evaluated on the page; if one is
\* there, waitForTimeout(5000)
Detect(hasAntiBot) ==
    /\ xpc = "entry"
    /\ xlog' = xlog \o << XEv("detect", IF hasAntiBot THEN "anti-bot" ELSE "clear", 0) >>
                  \o (IF hasAntiBot THEN << XEv("wait", "ok", 5000) >> ELSE << >>)
    /\ xpc' = "search"
    /\ UNCHANGED << extracted_cookies, validation, cookies_file, result, crawlVars, commandVars, apiDates >>

\* step 3: the search form is filled in and submitted, waitForTimeout(3000);
\* an error (the form is not found) is logged and passed over
TestSearch(found) ==
    /\ xpc = "search"
    /\ xlog' = xlog \o (IF found THEN << XEv("form", "ok", 0), XEv("wait", "ok", 3000) >>
                                  ELSE << XEv("form", "threw", 0) >>)
    /\ xpc' = "collect"
    /\ UNCHANGED << extracted_cookies, validation, cookies_file, result, crawlVars, commandVars, apiDates >>

\* step 4: this.extracted_cookies is built from page.cookies()
Collect(jar) ==
    /\ xpc = "collect"
    /\ extracted_cookies' = jar
    /\ xlog' = Append(xlog, XEvCookies(jar))
    /\ xpc' = "probe"
    /\ UNCHANGED << validation, cookies_file, result, crawlVars, commandVars, apiDates >>

\* how the POST of step 6 can end: response.ok, a response that is not ok,
\* fetch rejecting (caught inside the page), page.evaluate rejecting
ProbeOutcomes == { "ok", "HTTP 403", "error", "threw" }

\* step 6: one POST to SearchInstances from the page; when page.evaluate
\* rejects, the catch block logs it and the cookies of step 4 are returned
Probe(outcome) ==
    /\ xpc = "probe"
    /\ xlog' = Append(xlog, XEv("probe", outcome, 0))
    /\ xpc' = IF outcome = "threw" THEN "extracted" ELSE "recollect"
    /\ UNCHANGED << extracted_cookies, validation, cookies_file, result, crawlVars, commandVars, apiDates >>

\* the cookies of the page after the POST: those it had, and the
\* fingerprint cookie the portal may set on the first request to its API
AfterProbe(jar) ==
    { jar, [n \in DOMAIN jar \cup { "pr_fp" } |->
               IF n = "pr_fp" THEN << "a", "b" >> ELSE jar[n]] }

\* extractCookies: this.extracted_cookies is rebuilt from page.cookies()
\* after the POST, and returned
ExtractCookies(jar) ==
    /\ xpc = "recollect"
    /\ extracted_cookies' = jar
    /\ xlog' = Append(xlog, XEvCookies(jar))
    /\ xpc' = "extracted"
    /\ UNCHANGED << validation, cookies_file, result, crawlVars, commandVars, apiDates >>

\* mutant: this.extracted_cookies is emptied before page.cookies() is awaited
RecollectThrows_Clears ==
    /\ xpc = "recollect"
    /\ extracted_cookies' = << >>
    /\ xlog' = Append(xlog, XEv("cookies", "threw", 0))
    /\ xpc' = "extracted"
    /\ UNCHANGED << validation, cookies_file, result, crawlVars, commandVars, apiDates >>

\* page.cookies() after the POST rejects: the catch block logs it and the
\* cookies of step 4 are returned
RecollectThrows ==
    /\ xpc = "recollect"
    /\ xlog' = Append(xlog, XEv("cookies", "threw", 0))
    /\ xpc' = "extracted"
    /\ UNCHANGED << extracted_cookies, validation, cookies_file, result, crawlVars, commandVars, apiDates >>

\* the object the cookie command prints
Result(success, error, jar, v) ==
    [success |-> success, error |-> error,
     total_cookies |-> Cardinality(DOMAIN jar),
     critical_cookies |-> Len(v.criticalCookies),
     isValid |-> v.isValid, errors |-> Len(v.errors), warnings |-> Len(v.warnings)]

\* the command's catch block: init or extractCookies threw (the browser did
\* not start, page.goto timed out); {success: false, error} is printed
ExtractThrows ==
    /\ xpc \in { "new", "entry", "collect" }
    /\ result' = << Result(FALSE, "error.message", << >>,
                           [isValid |-> FALSE, errors |-> << >>, warnings |-> << >>,
                            criticalCookies |-> << >>]) >>
    /\ xpc' = "reported"
    /\ xlog' = Append(xlog, XEv("extractCookies", "threw", 0))
    /\ UNCHANGED << extracted_cookies, validation, cookies_file, crawlVars, commandVars, apiDates >>

\* const validation = extractor.validateCookies()
Validate ==
    /\ xpc \in { "new", "extracted" }
    /\ validation' = << ValidateCookies(extracted_cookies) >>
    /\ xpc' = "validated"
    /\ UNCHANGED << extracted_cookies, cookies_file, result, xlog, crawlVars, commandVars, apiDates >>

\* ------------------------------------------------------------ the cookie file
\* the order in which the keys of a cookie map are written
CookieOrder == criticalCookies \o << "_ga", "_ym_uid" >>

\* JSON.stringify of a name -> value map: its "name": "value" members in order
Stringify(jar) ==
    LET names == SelectSeq(CookieOrder, LAMBDA n : n \in DOMAIN jar)
    IN  [i \in 1..Len(names) |-> << names[i], jar[names[i]] >>]

\* JSON.parse of such a text: the object with its members, the last one
\* winning for a name written twice
ParseJSON(text) ==
    [n \in { text[i][1] : i \in 1..Len(text) } |->
        LET last == CHOOSE i \in 1..Len(text) :
                        /\ text[i][1] = n
                        /\ \A k \in 1..Len(text) : text[k][1] = n => k <= i
        IN  text[last][2]]

\* a file whose text is no JSON: a member without a value
InvalidJSON == << << "{" >> >>

\* JSON.parse returns (it throws a SyntaxError otherwise)
IsJSON(text) == \A i \in 1..Len(text) : Len(text[i]) = 2

\* the cookie loadCookies hands to page.setCookie for one member
PuppeteerCookie(name, value) ==
    [name |-> name, value |-> value, domain |-> ".arbitr.ru", path |-> "/",
     httpOnly |-> FALSE, secure |-> TRUE, sameSite |-> "Lax"]

\* await extractor.saveCookies(cookies_file), whose outcome (written) the
\* command does not look at; then {success: true, ...} is printed
SaveAndReport(written) ==
    /\ xpc = "validated"
    /\ cookies_file' = IF written THEN << Stringify(extracted_cookies) >> ELSE cookies_file
    /\ result' = << Result(TRUE, "", extracted_cookies, validation[1]) >>
    /\ xpc' = "reported"
    /\ UNCHANGED << extracted_cookies, validation, xlog, crawlVars, commandVars, apiDates >>

NextExtractor ==
    \/ OpenEntry
    \/ \E hasAntiBot \in BOOLEAN : Detect(hasAntiBot)
    \/ \E found \in BOOLEAN : TestSearch(found)
    \/ \E jar \in Jars : Collect(jar)
    \/ \E outcome \in ProbeOutcomes : Probe(outcome)
    \/ \E jar \in AfterProbe(extracted_cookies) : ExtractCookies(jar)
    \/ RecollectThrows
    \/ ExtractThrows
    \/ Validate
    \/ \E written \in BOOLEAN : SaveAndReport(written)

SpecExtractor == Init /\ [][NextExtractor]_vars

\* ---------------------------------------------------------- the parser command
\* the commands of main, "help" the one taken when none is given, and the
\* entry point of the cookie extractor
Commands == { "init", "loadCookies", "searchDocuments", "processDateRange",
              "getStats", "close", "help", "cookie_extractor_main" }

\* the commands that start a browser
WithBrowser == { "init", "loadCookies", "searchDocuments", "processDateRange",
                 "cookie_extractor_main" }

\* the command lines: the command, --cookies_file (absent, or a file name
\* with or without the ending .json), --params and the two dates given or not
CommandLines ==
    [command : Commands, cookies_file : { "absent", "cookies.json", "cookies" },
     params : BOOLEAN, dates : BOOLEAN]

\* parseArgs: a value that ends in .json and names an existing file is
\* replaced by the parsed content of the file
ParseArgs(argv) ==
    [argv EXCEPT !.cookies_file =
        IF argv.cookies_file = "absent" THEN "absent"
        ELSE IF argv.cookies_file = "cookies.json" /\ cookies_file # << >>
             THEN "object" ELSE "path"]

\* a printed object: its success member, and which of the other members it has
Out(success, members) == [success |-> success, members |-> members]

OutError == Out(FALSE, { "error" })

\* mutant: the operation is called whether or not its arguments are given
Body_NoArgumentTest(a) ==
    CASE a.command = "init" ->
             [cpc |-> "finally", out |-> << Out(TRUE, { "message" }) >>]
      [] OTHER -> [cpc |-> "body", out |-> << >>]

\* the command after init and loadCookies, up to its next await or its output:
\* what is awaited next, or the object printed
Body(a) ==
    CASE a.command = "init" ->
             [cpc |-> "finally", out |-> << Out(TRUE, { "message" }) >>]
      [] a.command = "searchDocuments" ->
             IF a.params THEN [cpc |-> "body", out |-> << >>]
             ELSE [cpc |-> "finally", out |-> << OutError >>]
      [] a.command = "processDateRange" ->
             IF a.dates THEN [cpc |-> "body", out |-> << >>]
             ELSE [cpc |-> "finally", out |-> << OutError >>]
      [] OTHER -> [cpc |-> "body", out |-> << >>]

\* the command after init: loadCookies is awaited when --cookies_file is given
AfterInit(a) ==
    CASE a.command = "loadCookies" ->
             IF a.cookies_file # "absent" THEN [cpc |-> "loading", out |-> << >>]
             ELSE [cpc |-> "finally", out |-> << OutError >>]
      [] a.command \in { "searchDocuments", "processDateRange" } ->
             IF a.cookies_file # "absent" THEN [cpc |-> "loading", out |-> << >>]
             ELSE Body(a)
      [] OTHER -> Body(a)

\* main up to its first await, or to its output for the commands that await
\* nothing
Start(argv) ==
    /\ cpc = "idle"
    /\ args' = ParseArgs(argv)
    /\ IF argv.command \in WithBrowser
         THEN /\ cpc' = "init"
              /\ UNCHANGED stdout
         ELSE /\ cpc' = "finally"
              /\ stdout' = Append(stdout,
                     CASE argv.command = "getStats" -> Out(TRUE, { "data" })
                       [] argv.command = "close"    -> Out(TRUE, { "message" })
                       [] OTHER                     -> OutError)
    /\ UNCHANGED << browser, cookies, pageCookies, exitCode, ops >>
    /\ UNCHANGED << crawlVars, extractorVars, apiDates >>

\* init ends: the browser is launched and the page opened, or puppeteer.launch
\* rejects, or a later step of init rejects with the browser launched
InitEnds(outcome) ==
    /\ cpc = "init"
    /\ ops' = Append(ops, [op |-> "init", outcome |-> outcome])
    /\ browser' = IF outcome = "launch threw" THEN "null" ELSE "open"
    /\ LET go == IF outcome = "ok" THEN AfterInit(args)
                 ELSE [cpc |-> "finally", out |-> << OutError >>]
       IN  cpc' = go.cpc /\ stdout' = stdout \o go.out
    /\ UNCHANGED << args, cookies, pageCookies, exitCode >>
    /\ UNCHANGED << crawlVars, extractorVars, apiDates >>

\* mutant: loadCookies keeps the names only
LoadedCookies_NamesOnly(text) == [n \in DOMAIN ParseJSON(text) |-> << >>]

\* const cookiesData = JSON.parse(fs.readFileSync(cookiesPath, 'utf8'))
LoadedCookies(text) == ParseJSON(text)

\* mutant: this.cookies is assigned before page.setCookie is awaited
LoadCookiesResult_StoresFirst(cookiesPath, accepted) ==
    LET exists == cookiesPath = "path" /\ cookies_file # << >>
        parsed == exists /\ IsJSON(cookies_file[1])
        data == LoadedCookies(cookies_file[1])
        set == { PuppeteerCookie(n, data[n]) : n \in DOMAIN data }
    IN  [returned |-> parsed /\ accepted,
         cookies |-> IF parsed THEN << data >> ELSE cookies,
         pageCookies |-> IF parsed /\ accepted
                         THEN { c \in pageCookies : c.name \notin DOMAIN data } \cup set
                         ELSE pageCookies,
         ops |-> (IF parsed THEN << [op |-> "setCookie",
                                     outcome |-> IF accepted THEN "ok" ELSE "threw"] >>
                  ELSE << >>)
                 \o << [op |-> "loadCookies",
                        outcome |-> IF parsed /\ accepted THEN "true" ELSE "false"] >>]

\* loadCookies(cookiesPath): the value returned, this.cookies and the cookies
\* of the page after it, and the operations it awaited.  The try block throws
\* when the argument names no existing file (so also when parseArgs replaced
\* it by an object), when the text is no JSON, or when page.setCookie rejects
\* (accepted is false); the catch block returns false.  Else the members of
\* the file are set on the page as cookies, replacing those of the same
\* name, this.cookies is the parsed object, and true is returned
LoadCookiesResult(cookiesPath, accepted) ==
    LET exists == cookiesPath = "path" /\ cookies_file # << >>
        parsed == exists /\ IsJSON(cookies_file[1])
        data == LoadedCookies(cookies_file[1])
        set == { PuppeteerCookie(n, data[n]) : n \in DOMAIN data }
    IN  [returned |-> parsed /\ accepted,
         cookies |-> IF parsed /\ accepted THEN << data >> ELSE cookies,
         pageCookies |-> IF parsed /\ accepted
                         THEN { c \in pageCookies : c.name \notin DOMAIN data } \cup set
                         ELSE pageCookies,
         ops |-> (IF parsed THEN << [op |-> "setCookie",
                                     outcome |-> IF accepted THEN "ok" ELSE "threw"] >>
                  ELSE << >>)
                 \o << [op |-> "loadCookies",
                        outcome |-> IF parsed /\ accepted THEN "true" ELSE "false"] >>]

\* mutant: a failed loadCookies ends searchDocuments and processDateRange
LoadCookies_Checked(accepted) ==
    /\ cpc = "loading"
    /\ LET r == LoadCookiesResult(args.cookies_file, accepted)
           go == IF args.command = "loadCookies"
                 THEN [cpc |-> "finally", out |-> << Out(r.returned, { "message" }) >>]
                 ELSE IF r.returned THEN Body(args)
                 ELSE [cpc |-> "finally", out |-> << OutError >>]
       IN  /\ ops' = ops \o r.ops
           /\ cookies' = r.cookies
           /\ pageCookies' = r.pageCookies
           /\ cpc' = go.cpc /\ stdout' = stdout \o go.out
    /\ UNCHANGED << args, browser, exitCode >>
    /\ UNCHANGED << crawlVars, extractorVars, apiDates >>

\* await parser.loadCookies(args.cookies_file) ends; the command loadCookies
\* prints {success, message}, the other commands go on
LoadCookies(accepted) ==
    /\ cpc = "loading"
    /\ LET r == LoadCookiesResult(args.cookies_file, accepted)
           go == IF args.command = "loadCookies"
                 THEN [cpc |-> "finally", out |-> << Out(r.returned, { "message" }) >>]
                 ELSE Body(args)
       IN  /\ ops' = ops \o r.ops
           /\ cookies' = r.cookies
           /\ pageCookies' = r.pageCookies
           /\ cpc' = go.cpc /\ stdout' = stdout \o go.out
    /\ UNCHANGED << args, browser, exitCode >>
    /\ UNCHANGED << crawlVars, extractorVars, apiDates >>

\* mutant: an error of the operation awaited is not reported
BodyEnds_Silent(outcome) ==
    /\ cpc = "body"
    /\ ops' = Append(ops, [op |-> args.command, outcome |-> outcome])
    /\ stdout' = IF outcome = "returned" THEN Append(stdout, Out(TRUE, { "data" }))
                  ELSE stdout
    /\ cpc' = "finally"
    /\ UNCHANGED << args, browser, cookies, pageCookies, exitCode >>
    /\ UNCHANGED << crawlVars, extractorVars, apiDates >>

\* the operation of the command (searchDocuments, processDateRange, or
\* extractCookies with what follows it) returns, and the result is printed,
\* or it throws, and the catch block prints {success: false, error}
BodyEnds(outcome) ==
    /\ cpc = "body"
    /\ ops' = Append(ops, [op |-> args.command, outcome |-> outcome])
    /\ stdout' = Append(stdout, IF outcome = "returned" THEN Out(TRUE, { "data" })
                                ELSE OutError)
    /\ cpc' = "finally"
    /\ UNCHANGED << args, browser, cookies, pageCookies, exitCode >>
    /\ UNCHANGED << crawlVars, extractorVars, apiDates >>

\* mutant: the finally block does not close the browser
Finally_NoClose(closed) ==
    /\ cpc = "finally"
    /\ cpc' = "resolved"
    /\ UNCHANGED << ops, browser, stdout, exitCode, args, cookies, pageCookies >>
    /\ UNCHANGED << crawlVars, extractorVars, apiDates >>

\* mutant: the process exits with code 1 whenever a browser was open
Finally_ExitsOne(closed) ==
    /\ cpc = "finally"
    /\ IF browser = "open"
         THEN /\ ops' = Append(ops, [op |-> "close",
                                     outcome |-> IF closed THEN "ok" ELSE "threw"])
              /\ browser' = IF closed THEN "closed" ELSE browser
              /\ stdout' = IF closed THEN stdout ELSE Append(stdout, OutError)
              /\ exitCode' = 1
              /\ cpc' = IF closed THEN "resolved" ELSE "exited"
         ELSE /\ cpc' = "resolved"
              /\ UNCHANGED << ops, browser, stdout, exitCode >>
    /\ UNCHANGED << args, cookies, pageCookies >>
    /\ UNCHANGED << crawlVars, extractorVars, apiDates >>

\* the finally block: the browser, if there is one, is closed.  When close
\* rejects, main rejects, the handler of the entry point prints
\* {success: false, error} and the process exits with code 1
Finally(closed) ==
    /\ cpc = "finally"
    /\ IF browser = "open"
         THEN /\ ops' = Append(ops, [op |-> "close",
                                     outcome |-> IF closed THEN "ok" ELSE "threw"])
              /\ browser' = IF closed THEN "closed" ELSE browser
              /\ stdout' = IF closed THEN stdout ELSE Append(stdout, OutError)
              /\ exitCode' = IF closed THEN 0 ELSE 1
              /\ cpc' = IF closed THEN "resolved" ELSE "exited"
         ELSE /\ cpc' = "resolved"
              /\ UNCHANGED << ops, browser, stdout, exitCode >>
    /\ UNCHANGED << args, cookies, pageCookies >>
    /\ UNCHANGED << crawlVars, extractorVars, apiDates >>

NextCommand ==
    \/ \E argv \in CommandLines : Start(argv)
    \/ \E outcome \in { "ok", "launch threw", "page threw" } : InitEnds(outcome)
    \/ \E accepted \in BOOLEAN : LoadCookies(accepted)
    \/ \E outcome \in { "returned", "threw" } : BodyEnds(outcome)
    \/ \E closed \in BOOLEAN : Finally(closed)

SpecCommand == Init /\ [][NextCommand]_vars

\* the same where every awaited call settles
SpecCommandLive == Init /\ [][NextCommand]_vars /\ WF_vars(NextCommand)

\* ------------------------------------------ cookies saved, then loaded again
\* extractor.saveCookies(filePath): JSON.stringify(this.extracted_cookies) is
\* written and true returned, or the write throws and false is returned
SaveCookies(written) ==
    /\ xpc = "extracted"
    /\ cookies_file' = IF written THEN << Stringify(extracted_cookies) >> ELSE cookies_file
    /\ xlog' = Append(xlog, XEv("saveCookies", IF written THEN "true" ELSE "false", 0))
    /\ xpc' = "saved"
    /\ UNCHANGED << extracted_cookies, validation, result, crawlVars, commandVars, apiDates >>

\* an extractor that holds any cookie map extractCookies can return
InitRoundTrip ==
    /\ pc = "idle"
    /\ startDate = 0 /\ endDate = 0
    /\ max_pages = [kind |-> "absent", n |-> 0] /\ maxPages = 0
    /\ currentDate = 0 /\ endDateObj = 0
    /\ page = 0 /\ response = <<>> /\ idx = 0
    /\ results = <<>> /\ metadata = <<>>
    /\ now = 0 /\ inflight = 0 /\ served = 0 /\ caught = 0
    /\ log = <<>> /\ origin = <<>>
    /\ xpc = "extracted"
    /\ extracted_cookies \in Jars
    /\ validation = << >>
    /\ cookies_file = << >>
    /\ result = << >>
    /\ xlog = << >>
    /\ cpc = "idle"
    /\ args = [command |-> "help", cookies_file |-> "absent", params |-> FALSE,
               dates |-> FALSE]
    /\ browser = "null"
    /\ cookies = << >>
    /\ pageCookies = {}
    /\ stdout = << >>
    /\ exitCode = 0
    /\ ops = << >>
    /\ apiDates = << >>

\* saveCookies, then the command loadCookies of the parser
NextRoundTrip ==
    \/ \E written \in BOOLEAN : cpc = "idle" /\ SaveCookies(written)
    \/ \E argv \in CommandLines : argv.command = "loadCookies" /\ Start(argv)
    \/ \E outcome \in { "ok", "launch threw", "page threw" } : InitEnds(outcome)
    \/ \E accepted \in BOOLEAN : LoadCookies(accepted)
    \/ \E closed \in BOOLEAN : Finally(closed)

SpecRoundTrip == InitRoundTrip /\ [][NextRoundTrip]_vars

\* --------------------------------------- a program that uses the parser itself
\* the cookie maps written to the file in such a run
FileJars == { jar \in Jars : DOMAIN jar \subseteq { "pr_fp", "_ga" } }

\* what the cookie file can hold: nothing (the file is absent), the text
\* saveCookies writes for a map, or a text that is no JSON
FileContents ==
    { << >>, << InvalidJSON >> } \cup { << Stringify(jar) >> : jar \in FileJars }

\* the number of calls made so far
Calls == Cardinality({ i \in DOMAIN ops : ops[i].op \in { "loadCookies", "getStats" } })

\* a parser constructed and initialised by a program that requires the
\* module (module.exports = PuppeteerParser): this.cookies is null, the page
\* is open
InitLibrary ==
    /\ pc = "idle"
    /\ startDate = 0 /\ endDate = 0
    /\ max_pages = [kind |-> "absent", n |-> 0] /\ maxPages = 0
    /\ currentDate = 0 /\ endDateObj = 0
    /\ page = 0 /\ response = <<>> /\ idx = 0
    /\ results = <<>> /\ metadata = <<>>
    /\ now = 0 /\ inflight = 0 /\ served = 0 /\ caught = 0
    /\ log = <<>> /\ origin = <<>>
    /\ xpc = "new"
    /\ extracted_cookies = << >>
    /\ validation = << >>
    /\ cookies_file \in FileContents
    /\ result = << >>
    /\ xlog = << >>
    /\ cpc = "library"
    /\ args = [command |-> "help", cookies_file |-> "absent", params |-> FALSE,
               dates |-> FALSE]
    /\ browser = "open"
    /\ cookies = << >>
    /\ pageCookies = {}
    /\ stdout = << >>
    /\ exitCode = 0
    /\ ops = << >>
    /\ apiDates = << >>

\* the cookie file is written, replaced or removed between two calls
FileChanges(content) ==
    /\ cpc = "library"
    /\ content # cookies_file
    /\ cookies_file' = content
    /\ UNCHANGED << xpc, extracted_cookies, validation, result, xlog >>
    /\ UNCHANGED << crawlVars, commandVars, apiDates >>

\* await parser.loadCookies(cookiesPath), called by the program
LoadCookiesCall(cookiesPath, accepted) ==
    /\ cpc = "library"
    /\ Calls < MaxCalls
    /\ LET r == LoadCookiesResult(cookiesPath, accepted)
       IN  /\ ops' = ops \o r.ops
           /\ cookies' = r.cookies
           /\ pageCookies' = r.pageCookies
    /\ UNCHANGED << cpc, args, browser, stdout, exitCode >>
    /\ UNCHANGED << crawlVars, extractorVars, apiDates >>

NextLibrary ==
    \/ \E content \in FileContents : FileChanges(content)
    \/ \E cookiesPath \in { "path", "object" }, accepted \in BOOLEAN :
          LoadCookiesCall(cookiesPath, accepted)

SpecLibrary == InitLibrary /\ [][NextLibrary]_vars

\* ------------------------------------- the commands that search, as a whole
\* the cookie file before such a command: absent, no JSON, or a saved map
SessionFiles ==
    { << >>, << InvalidJSON >>,
      << Stringify([n \in { "pr_fp", "_ga" } |->
                      IF n = "pr_fp" THEN << "a", "b" >> ELSE << "1" >>]) >> }

InitSession ==
    /\ pc = "idle"
    /\ startDate = 0 /\ endDate = 0
    /\ max_pages = [kind |-> "absent", n |-> 0] /\ maxPages = 0
    /\ currentDate = 0 /\ endDateObj = 0
    /\ page = 0 /\ response = <<>> /\ idx = 0
    /\ results = <<>> /\ metadata = <<>>
    /\ now = 0 /\ inflight = 0 /\ served = 0 /\ caught = 0
    /\ log = <<>> /\ origin = <<>>
    /\ xpc = "new"
    /\ extracted_cookies = << >>
    /\ validation = << >>
    /\ cookies_file \in SessionFiles
    /\ result = << >>
    /\ xlog = << >>
    /\ cpc = "idle"
    /\ args = [command |-> "help", cookies_file |-> "absent", params |-> FALSE,
               dates |-> FALSE]
    /\ browser = "null"
    /\ cookies = << >>
    /\ pageCookies = {}
    /\ stdout = << >>
    /\ exitCode = 0
    /\ ops = << >>
    /\ apiDates = << >>

\* the commands searchDocuments and processDateRange from the command line
\* to the exit of the process; processDateRange runs step by step, with
\* max_pages = 1
NextSession ==
    \/ \E argv \in CommandLines :
          /\ argv.command \in { "searchDocuments", "processDateRange" }
          /\ argv.params = (argv.command = "searchDocuments")
          /\ argv.dates = (argv.command = "processDateRange")
          /\ Start(argv)
    \/ \E outcome \in { "ok", "launch threw", "page threw" } : InitEnds(outcome)
    \/ \E accepted \in BOOLEAN : LoadCookies(accepted)
    \/ \E outcome \in { "returned", "threw" } :
          /\ args.command = "searchDocuments"
          /\ BodyEnds(outcome)
    \/ \E s \in DateStrings \cup {InvalidDateString},
          e \in DateStrings \cup {InvalidDateString} :
          /\ cpc = "body" /\ args.command = "processDateRange"
          /\ Call(s, e, [kind |-> "int", n |-> 1])
    \/ PagesExhausted
    \/ SearchSend
    \/ \E error \in SearchErrors : SearchThrows(error)
    \/ \E resp \in Responses(MaxServed - served) : SearchReturns(resp)
    \/ DownloadOk
    \/ \E error \in DownloadErrors : DownloadFails(error)
    \/ /\ pc = "done"
       /\ BodyEnds("returned")
    \/ \E closed \in BOOLEAN : Finally(closed)

SpecSession == InitSession /\ [][NextSession]_vars

\* --------------------------------------------------------------- getApiDates
\* an argument that is null, undefined or the empty string
NoDate == 0 - 2

\* the arguments: none, a string that is no date, a 'YYYY-MM-DD' string
ApiDateArgs == { NoDate, InvalidDateString } \cup (0..((MaxYear + 1) * YearDays - 1))

\* the time zones: local time is UTC plus this many ticks
Zones == { 0 - 1, 0, 1 }

\* the clock: a time of the years 1..MaxYear in local time
Clocks == { t \in 0..((MaxYear + 2) * YearDays * TicksPerDay) :
              \A z \in Zones : ((t + z) \div TicksPerDay) \div YearDays \in 1..MaxYear }

\* today.getFullYear(): the year of the local date
GetFullYear(t, zone) == ((t + zone) \div TicksPerDay) \div YearDays

\* new Date(year, 0, 1): midnight of 1 January in local time, as a time value
NewDateLocal(year, zone) == year * YearDays * TicksPerDay - zone

\* formatDate of a Date object: its UTC date, <<>> for null
FormatDateObject(t) == IF t = NaN THEN << >> ELSE << ToISODate(t) >>

\* formatDate of an argument: null when it is missing or no date, else the
\* UTC date of new Date(date)
FormatDate(date) ==
    IF date = NoDate THEN << >> ELSE FormatDateObject(NewDate(date))

\* a || b for two results of formatDate (a date string is never empty)
OrElse(a, b) == IF a # << >> THEN a ELSE b

\* getApiDates(dateFrom, dateTo) when new Date() is `today` in time zone `zone`
GetApiDates(dateFrom, dateTo, today, zone) ==
    LET defaultFrom == NewDateLocal(GetFullYear(today, zone), zone)
        fromDate == OrElse(FormatDate(dateFrom), FormatDateObject(defaultFrom))
        toDate == OrElse(FormatDate(dateTo), FormatDateObject(today))
    IN  IF /\ fromDate # << >> /\ toDate # << >>
           /\ NewDate(fromDate[1]) > NewDate(toDate[1])
        THEN [DateFrom |-> toDate, DateTo |-> fromDate]
        ELSE [DateFrom |-> fromDate, DateTo |-> toDate]

\* extractor.getApiDates(dateFrom, dateTo) is called (the function keeps no
\* state, so one call is followed here)
CallGetApiDates(dateFrom, dateTo, today, zone) ==
    /\ apiDates = << >>
    /\ apiDates' = << [dateFrom |-> dateFrom, dateTo |-> dateTo, today |-> today,
                       zone |-> zone,
                       value |-> GetApiDates(dateFrom, dateTo, today, zone)] >>
    /\ UNCHANGED << crawlVars, extractorVars, commandVars >>

NextApiDates ==
    \E dateFrom \in ApiDateArgs, dateTo \in ApiDateArgs, today \in Clocks, zone \in Zones :
        CallGetApiDates(dateFrom, dateTo, today, zone)

SpecApiDates == Init /\ [][NextApiDates]_vars

\* ------------------------------------------------------------------ getStats
\* a metadata.json whose text is no JSON
UnreadableLedger == [text |-> "{"]

\* JSON.parse(fs.readFileSync(metadataPath)) returns the ledger
IsLedger(file) == "total_documents" \in DOMAIN file

\* { total_documents: 0, last_update: null }; a value that may be null is a
\* sequence, empty for null
NoStats == [total_documents |-> 0, last_update |-> << >>]

\* mutant: getStats does not read the file
GetStatsValue_NoRead(file) == NoStats

\* the object getStats returns when metadata.json is `file`.  A missing file
\* gives NoStats at once; a text that is no JSON makes JSON.parse throw and
\* the catch block gives NoStats; else total_documents || 0, and
\* processed_at || null, where processed_at is an ISO date string, which is
\* never empty
GetStatsValue(file) ==
    IF file = << >> THEN NoStats
    ELSE IF ~ IsLedger(file[1]) THEN NoStats
    ELSE [total_documents |-> IF file[1].total_documents = 0 THEN 0
                              ELSE file[1].total_documents,
          last_update |-> << file[1].processed_at >>]

\* parser.getStats(), called before or after a run on the same docsDir
GetStats ==
    /\ pc \in { "idle", "done" }
    /\ Calls < MaxCalls
    /\ ops' = Append(ops, [op |-> "getStats", outcome |-> "returned",
                           value |-> GetStatsValue(metadata)])
    /\ UNCHANGED << cpc, args, browser, cookies, pageCookies, stdout, exitCode >>
    /\ UNCHANGED << crawlVars, extractorVars, apiDates >>

\* a parser on a docsDir that holds no metadata.json, one that cannot be
\* read, or the one of an earlier run
InitStats ==
    /\ pc = "idle"
    /\ startDate = 0 /\ endDate = 0
    /\ max_pages = [kind |-> "absent", n |-> 0] /\ maxPages = 0
    /\ currentDate = 0 /\ endDateObj = 0
    /\ page = 0 /\ response = <<>> /\ idx = 0
    /\ results = <<>>
    /\ metadata \in { << >>, << UnreadableLedger >> } \cup { << l >> : l \in PriorLedgers }
    /\ now = 1 /\ inflight = 0 /\ served = 0 /\ caught = 0
    /\ log = <<>> /\ origin = <<>>
    /\ xpc = "new"
    /\ extracted_cookies = << >>
    /\ validation = << >>
    /\ cookies_file = << >>
    /\ result = << >>
    /\ xlog = << >>
    /\ cpc = "library"
    /\ args = [command |-> "help", cookies_file |-> "absent", params |-> FALSE,
               dates |-> FALSE]
    /\ browser = "open"
    /\ cookies = << >>
    /\ pageCookies = {}
    /\ stdout = << >>
    /\ exitCode = 0
    /\ ops = << >>
    /\ apiDates = << >>

\* getStats around one run of processDateRange with maxPages = 1
NextStats ==
    \/ GetStats
    \/ \E s \in DateStrings \cup {InvalidDateString},
          e \in DateStrings \cup {InvalidDateString} :
          Call(s, e, [kind |-> "int", n |-> 1])
    \/ PagesExhausted
    \/ SearchSend
    \/ \E error \in SearchErrors : SearchThrows(error)
    \/ \E resp \in Responses(MaxServed - served) : SearchReturns(resp)
    \/ DownloadOk
    \/ \E error \in DownloadErrors : DownloadFails(error)

SpecStats == InitStats /\ [][NextStats]_vars

\* ===================================================================== claims
\* positions of the search requests in the log
SearchIdx == { i \in 1..Len(log) : log[i].op = "search" }

\* the search request before position i, 0 when there is none
PrevSearch(i) ==
    LET P == { j \in SearchIdx : j < i }
    IN  IF P = {} THEN 0 ELSE CHOOSE j \in P : \A k \in P : k <= j

\* the search requests in order
Searches == SelectSeq(log, LAMBDA ev : ev.op = "search")

\* the windows queried, in order: the first-page requests
Windows == SelectSeq(log, LAMBDA ev : ev.op = "search" /\ ev.page = 1)

\* the text of a row as the claims describe it: lowercase(caseNumber + " " + title)
TextOf(caseNumber, title) ==
    LET cn == IF caseNumber = UndefinedStr THEN <<>> ELSE caseNumber
        ti == IF title = UndefinedStr THEN <<>> ELSE title
        raw == cn \o <<" ">> \o ti
    IN  [i \in 1..Len(raw) |-> ToLowerChar(raw[i])]

ContainsAny(text, keywords) ==
    \E k \in keywords : \E i \in 1..(Len(text) - Len(k) + 1) :
        SubSeq(text, i, i + Len(k) - 1) = k

RowExcluded(doc) == ContainsAny(TextOf(doc.CaseNumber, doc.Title), excludeKeywords)
RowIncluded(doc) ==
    /\ ~RowExcluded(doc)
    /\ ContainsAny(TextOf(doc.CaseNumber, doc.Title), includeKeywords)

NoDuplicateUrl(docs) ==
    \A i, j \in 1..Len(docs) : i # j => docs[i].url # docs[j].url

\* C1: no two entries of the ledger (results, and the documents written to
\* metadata.json) share a source URL, whatever the search responses are.
C1_NoDuplicateSourceUrl ==
    /\ NoDuplicateUrl(results)
    /\ metadata # <<>> => NoDuplicateUrl(metadata[1].documents)

\* C2: for startDate <= endDate the windows queried by a finished run are
\* ordered, contiguous, non-overlapping and their union is [startDate, endDate].
C2_WindowsPartitionRange ==
    ( /\ pc = "done"
      /\ startDate \in DateStrings /\ endDate \in DateStrings
      /\ startDate <= endDate
      /\ maxPages >= 1 )
    => /\ Len(Windows) >= 1
       /\ Windows[1].from = startDate
       /\ Windows[Len(Windows)].to = endDate
       /\ \A i \in 1..Len(Windows) : Windows[i].from < Windows[i].to
       /\ \A i \in 1..(Len(Windows) - 1) : Windows[i].to = Windows[i + 1].from

\* C3: in every search request DateFrom is not earlier than startDate and
\* DateTo is not later than endDate.
C3_RequestsWithinRange ==
    \A i \in SearchIdx : log[i].from >= startDate /\ log[i].to <= endDate

\* C4: within a window the pages requested are 1, 2, ..., k in order, k being
\* the first page answered with no rows; no page after k is requested for the
\* window; the empty page is not an error (the catch block does not run for
\* it) and the next request, if any, is page 1 of a later window.
C4_PagesUntilEmpty ==
    /\ \A i \in SearchIdx :
          LET j == PrevSearch(i) IN
          IF log[i].page = 1
          THEN j = 0 \/ log[j].from < log[i].from
          ELSE /\ j # 0
               /\ log[j].from = log[i].from
               /\ log[j].page = log[i].page - 1
               /\ log[j + 1].op = "rows" /\ log[j + 1].page >= 1
    /\ caught = Cardinality({ i \in 1..Len(log) : log[i].op = "failed" })

\* C4 witness: pages 1, 2, 3 of a window were requested, page 3 came back
\* empty with page 4 still under the cap, and the next window was entered.
C4_Witness ==
    \E i \in SearchIdx :
        /\ log[i].page = 3 /\ maxPages >= 4
        /\ i < Len(log) /\ log[i + 1].op = "rows" /\ log[i + 1].page = 0
        /\ pc = "page" /\ page = 1 /\ ToISODate(currentDate) > log[i].from

\* C5: every page requested is between 1 and maxPages and a window gets at
\* most maxPages requests, also when every page has rows; maxPages is 40 when
\* the argument max_pages is absent or not a number.
C5_PageCap ==
    /\ \A i \in SearchIdx :
          /\ 1 <= log[i].page /\ log[i].page <= maxPages
          /\ Cardinality({ j \in SearchIdx : log[j].from = log[i].from }) <= maxPages
    /\ (pc # "idle" /\ max_pages.kind \in {"absent", "text"}) => maxPages = 40

\* C5 witness: every page of the window had rows and the cap ended the window.
C5_Witness ==
    /\ pc = "page" /\ page = maxPages + 1 /\ maxPages >= 2
    /\ Cardinality({ j \in SearchIdx : log[j].from = ToISODate(currentDate) }) = maxPages

LexLess3(a, b) ==
    \/ a.from < b.from
    \/ a.from = b.from /\ a.page < b.page
    \/ a.from = b.from /\ a.page = b.page /\ a.pos < b.pos

\* C6: at most one network operation is in flight; the search requests are in
\* ascending (window, page) order and the ledger entries in ascending
\* (window, page, position in the response) order.
C6_SequentialOrdered ==
    /\ inflight \in {0, 1}
    /\ inflight = 1 <=> pc \in {"searching", "downloading"}
    /\ \A i \in 1..(Len(Searches) - 1) :
          \/ Searches[i].from < Searches[i + 1].from
          \/ Searches[i].from = Searches[i + 1].from /\ Searches[i].page < Searches[i + 1].page
    /\ Len(origin) = Len(results)
    /\ \A i \in 1..(Len(origin) - 1) : LexLess3(origin[i], origin[i + 1])

\* C6 witness: two ledger entries from different windows.
C6_Witness ==
    /\ Len(results) >= 2
    /\ origin[1].from < origin[2].from

\* C7: a row whose text contains an exclude keyword is never downloaded and
\* never in the ledger, also when it contains an include keyword as well.
C7_ExclusionPrecedence ==
    /\ pc = "downloading" => ~RowExcluded(response[idx])
    /\ \A i \in 1..Len(results) :
          ~ContainsAny(TextOf(results[i].caseNumber, results[i].title), excludeKeywords)

\* C7 witness: a row with an exclude and an include keyword was passed over
\* and the loop has gone on to a later row.
C7_Witness ==
    /\ pc = "downloading"
    /\ \E j \in 1..(idx - 1) :
          /\ RowExcluded(response[j])
          /\ ContainsAny(TextOf(response[j].CaseNumber, response[j].Title), includeKeywords)

\* downloads started since the last search request
DownloadsOfPage ==
    LET last == PrevSearch(Len(log) + 1)
    IN  Cardinality({ i \in (last + 1)..Len(log) : log[i].op = "download" })

\* rows among the first n of the page that are Included and have a DocumentUrl
IncludedWithUrl(n) ==
    Cardinality({ j \in 1..n : RowIncluded(response[j]) /\ response[j].DocumentUrl # Undefined })

\* C8: a row is Included exactly when its text has no exclude keyword and has
\* an include keyword; a download is attempted for the Included rows (that
\* have a DocumentUrl) and for no other row, so never for a row that matches
\* neither list.
C8_DefaultDeny ==
    /\ pc = "downloading" =>
          /\ RowIncluded(response[idx])
          /\ DownloadsOfPage = IncludedWithUrl(idx)
    /\ (pc = "page" /\ response # <<>>) =>
          DownloadsOfPage = IncludedWithUrl(Len(response))

\* C8 witness: the row titled "Reshenie po delu #123" is being downloaded after
\* a row matching neither list was passed over.
C8_Witness ==
    /\ pc = "downloading"
    /\ response[idx].Title = Title_Reshenie
    /\ \E j \in 1..(idx - 1) :
          ~RowExcluded(response[j]) /\ ~RowIncluded(response[j])

\* C9 as claimed: for any cookie map containing pr_fp, whatever its value,
\* validateCookies returns isValid = true.
C9_PrimaryPresentIsValid ==
    (xpc = "validated" /\ "pr_fp" \in DOMAIN extracted_cookies)
        => validation[1].isValid = TRUE

\* C9 amended: for any cookie map in which pr_fp has a non-empty value,
\* validateCookies returns isValid = true, whichever optional tokens are
\* present and however few cookies there are.
C9_PrimaryNonEmptyIsValid ==
    ( /\ xpc = "validated"
      /\ "pr_fp" \in DOMAIN extracted_cookies
      /\ extracted_cookies["pr_fp"] # << >> )
        => validation[1].isValid = TRUE /\ validation[1].errors = << >>

\* C9 witness: validated with pr_fp the only cookie of the map.
C9_Witness ==
    /\ xpc = "validated"
    /\ DOMAIN extracted_cookies = { "pr_fp" }
    /\ extracted_cookies["pr_fp"] # << >>
    /\ validation[1].isValid = TRUE

\* C10: for any cookie map without pr_fp, validateCookies returns
\* isValid = false and its errors name pr_fp.
C10_PrimaryMissingIsInvalid ==
    (xpc = "validated" /\ "pr_fp" \notin DOMAIN extracted_cookies)
        => /\ validation[1].isValid = FALSE
           /\ \E i \in 1..Len(validation[1].errors) :
                 validation[1].errors[i].missing = "pr_fp"

\* C10 witness: validated with every optional token present and pr_fp absent.
C10_Witness ==
    /\ xpc = "validated"
    /\ "pr_fp" \notin DOMAIN extracted_cookies
    /\ { "wasm", "PHPSESSID", "ASP.NET_SessionId" } \subseteq DOMAIN extracted_cookies
    /\ validation[1].isValid = FALSE

\* the optional tokens of validateCookies
OptionalTokens == { "wasm", "PHPSESSID", "ASP.NET_SessionId" }

\* the entries of a list of errors or warnings that name the cookie
Naming(list, cookieName) == { i \in 1..Len(list) : list[i].missing = cookieName }

\* C11: each optional token missing from the cookie map adds one warning
\* naming it and no error; the errors name pr_fp only and are non-empty only
\* when pr_fp is missing (absent or empty), which alone decides isValid; fewer
\* than 5 cookies adds a warning and nothing else.
C11_OptionalTokensWarnOnly ==
    xpc = "validated" =>
        LET v   == validation[1]
            jar == extracted_cookies
            few == IF Cardinality(DOMAIN jar) < 5 THEN 1 ELSE 0
            missingOptional ==
                { t \in OptionalTokens : t \notin DOMAIN jar \/ jar[t] = << >> }
        IN  /\ \A t \in missingOptional :
                   Cardinality(Naming(v.warnings, t)) = 1 /\ Naming(v.errors, t) = {}
            /\ \A i \in 1..Len(v.errors) : v.errors[i].missing = "pr_fp"
            /\ v.errors # << >> =>
                   ("pr_fp" \notin DOMAIN jar \/ jar["pr_fp"] = << >>)
            /\ v.isValid = (v.errors = << >>)
            /\ Cardinality(Naming(v.warnings, "few cookies")) = few
            /\ Len(v.warnings) = Cardinality(missingOptional) + few

\* C11 witness: pr_fp alone was collected; the three optional tokens and the
\* small number of cookies give four warnings, and the map is valid.
C11_Witness ==
    /\ xpc = "validated"
    /\ DOMAIN extracted_cookies = { "pr_fp" }
    /\ extracted_cookies["pr_fp"] = << "a", "b" >>
    /\ Len(validation[1].warnings) = 4
    /\ validation[1].errors = << >>
    /\ validation[1].isValid = TRUE

\* C12: when the collected cookie map does not contain pr_fp, the cookie
\* command reports success = false instead of a session acquired.
C12_TokenMissingIsFatal ==
    (xpc = "reported" /\ "pr_fp" \notin DOMAIN extracted_cookies)
        => result[1].success = FALSE

\* the events of the given kind since the last search request
PageEvents(op) ==
    { i \in (PrevSearch(Len(log) + 1) + 1)..Len(log) : log[i].op = op }

\* the downloads that returned a path, in order
Saved == SelectSeq(log, LAMBDA ev : ev.op = "saved")

\* C13: a download that fails (a response that is not ok, or an exception)
\* returns no path and adds nothing to the ledger, whose entries are exactly
\* the downloads that returned a path; it does not reach the catch block of
\* the window, and the loop goes on with the rest of the same page: the wait
\* of 1000 ms, then the next row to download or the end of the page, so that
\* every row of the page that is Included and has a URL gets its attempt.
C13_FailedDownloadSkipsOne ==
    /\ Len(results) = Len(Saved)
    /\ \A i \in 1..Len(results) : results[i].url = Saved[i].url
    /\ caught = Cardinality({ i \in 1..Len(log) : log[i].op = "failed" })
    /\ \A i \in 1..Len(log) : log[i].op = "null" =>
          /\ log[i - 1].op = "download" /\ log[i - 1].url = log[i].url
          /\ i + 1 <= Len(log) /\ log[i + 1].op = "wait" /\ log[i + 1].ms = 1000
          /\ i + 2 <= Len(log)
          /\ \/ log[i + 2].op = "download"
             \/ log[i + 2].op = "wait" /\ log[i + 2].ms = 2000
    /\ (pc = "page" /\ response # <<>>) =>
          Cardinality(PageEvents("saved")) + Cardinality(PageEvents("null"))
              = IncludedWithUrl(Len(response))

\* C13 witness: the first download of a page failed, the second one, of the
\* same page, returned a path, and the ledger holds the second document only.
C13_Witness ==
    /\ pc = "page" /\ Len(response) = 2
    /\ Cardinality(PageEvents("null")) = 1
    /\ Cardinality(PageEvents("saved")) = 1
    /\ \A i \in PageEvents("null") : \A j \in PageEvents("saved") : i < j
    /\ Len(results) = 1
    /\ results[1].url = response[2].DocumentUrl

\* the first search request after position i, 0 when there is none
NextSearch(i) ==
    LET N == { j \in SearchIdx : j > i }
    IN  IF N = {} THEN 0 ELSE CHOOSE j \in N : \A k \in N : j <= k

\* the downloads that returned a path before position i, in order
SavedBefore(i) == SelectSeq(SubSeq(log, 1, i), LAMBDA ev : ev.op = "saved")

\* the search failures with the given errors
FailedWith(errors) ==
    { i \in 1..Len(log) : log[i].op = "failed" /\ log[i].error \in errors }

\* the first days of the windows of the range startDate..endDate
WindowStarts ==
    { d \in startDate..endDate : (d - startDate) % WindowDays = 0 }

\* C14: after a search answered with a 4xx status the same window and page is
\* not requested again: the next request, if any, is page 1 of a later
\* window; the documents recorded before the failure stay in the ledger; and
\* the run is not aborted: when processDateRange has returned, every window
\* of the range was requested and metadata.json holds the ledger.
C14_PermanentFailureSkipsWindow ==
    /\ \A i \in FailedWith({ "HTTP 400", "HTTP 401" }) :
          LET j == PrevSearch(i)
              k == NextSearch(i)
              before == SavedBefore(i)
          IN  /\ j = i - 1
              /\ k # 0 => (log[k].from > log[j].from /\ log[k].page = 1)
              /\ Len(before) <= Len(results)
              /\ \A n \in 1..Len(before) : results[n].url = before[n].url
    /\ pc = "done" =>
          /\ metadata # <<>> /\ metadata[1].documents = results
          /\ (startDate >= 0 /\ endDate >= 0 /\ maxPages >= 1) =>
                 { log[i].from : i \in SearchIdx } = WindowStarts

\* C14 witness: page 1 of the first window gave a document, page 2 was
\* answered with HTTP 400, the next window was requested and the run
\* returned with the document in metadata.json.
C14_Witness ==
    /\ pc = "done"
    /\ \E i \in FailedWith({ "HTTP 400" }) :
          /\ log[i - 1].page = 2
          /\ Len(SavedBefore(i)) = 1
          /\ NextSearch(i) # 0
    /\ Len(metadata[1].documents) = 1

\* the request after the failure at position i is for the window and page
\* that failed
SameRequestAgain(i) ==
    LET j == PrevSearch(i)
        k == NextSearch(i)
    IN  k # 0 => (log[k].from = log[j].from /\ log[k].page = log[j].page)

\* the window and page of the failure at position i had not failed before
FirstFailure(i) ==
    \A h \in FailedWith(SearchErrors) :
        h < i => ~( /\ log[PrevSearch(h)].from = log[PrevSearch(i)].from
                    /\ log[PrevSearch(h)].page = log[PrevSearch(i)].page )

\* C15: a search that fails with a 5xx status or a timeout is retried: after
\* the first such failure of a window and page, the next request is for the
\* same window and page, and a finished run has requested it again.
C15_TransientFailureRetried ==
    \A i \in FailedWith({ "HTTP 500", "timeout" }) :
        FirstFailure(i) =>
            /\ SameRequestAgain(i)
            /\ pc = "done" => NextSearch(i) # 0

\* C16: when a search is answered with the session no longer recognised
\* (HTTP 401) for window w, page p, the request for w, p is issued again:
\* no later request is for another window or page before it, and a finished
\* run has issued it.
C16_SessionExpiredResumes ==
    \A i \in FailedWith({ "HTTP 401" }) :
        /\ SameRequestAgain(i)
        /\ pc = "done" =>
              \E k \in SearchIdx :
                  /\ k > i
                  /\ log[k].from = log[PrevSearch(i)].from
                  /\ log[k].page = log[PrevSearch(i)].page

\* C17: when a window after the first begins, metadata.json holds every
\* document downloaded in the windows before it.
C17_FlushedAfterEveryWindow ==
    (pc = "page" /\ page = 1 /\ results # <<>>) =>
        /\ metadata # <<>>
        /\ Len(metadata[1].documents) >= Len(results)
        /\ SubSeq(metadata[1].documents, 1, Len(results)) = results

\* C18: the ledger in metadata.json is append-only: whenever the file is
\* written, every entry it held before is among the entries it holds after.
C18_LedgerAppendOnly ==
    [][ metadata # <<>> =>
          /\ metadata' # <<>>
          /\ \A i \in 1..Len(metadata[1].documents) :
                \E j \in 1..Len(metadata'[1].documents) :
                    metadata'[1].documents[j] = metadata[1].documents[i] ]_vars

\* C19: whenever metadata.json is written it is {processed_at,
\* total_documents, documents}, total_documents is the number of entries of
\* documents, and documents is the list processDateRange returns: the
\* documents whose download returned a path, in order.
C19_LedgerShape ==
    metadata # <<>> =>
        LET m == metadata[1] IN
        /\ DOMAIN m = { "processed_at", "total_documents", "documents" }
        /\ m.total_documents = Len(m.documents)
        /\ pc = "done" /\ m.documents = results
        /\ Len(m.documents) = Len(Saved)
        /\ \A i \in 1..Len(m.documents) :
              /\ DOMAIN m.documents[i] = { "caseNumber", "title", "date", "url", "filepath" }
              /\ m.documents[i].url = Saved[i].url

\* C19 witness: the run returned two documents and metadata.json counts two.
C19_Witness ==
    /\ pc = "done"
    /\ Len(results) = 2
    /\ metadata # <<>> /\ metadata[1].total_documents = 2

\* C20: for the range day 0 .. day 4 and the portal with the fixed plan, the
\* finished run has queried exactly three windows, starting at day 0, day 2
\* and day 4, the last one ending at day 4, and the ledger written has
\* total_documents = 3 and pairwise distinct source URLs.
C20_EndToEnd ==
    pc = "done" =>
        /\ Len(Windows) = 3
        /\ Windows[1].from = 0 /\ Windows[2].from = 2 /\ Windows[3].from = 4
        /\ Windows[3].to = 4
        /\ metadata # <<>>
        /\ metadata[1].total_documents = 3
        /\ NoDuplicateUrl(metadata[1].documents)

\* C24: for an invalid date range (startDate later than endDate, or a date
\* that does not parse) processDateRange does not return normally, issues no
\* search request and does not write metadata.json.
C24_InvalidRangeIsFatal ==
    (pc # "idle" /\ (startDate < 0 \/ endDate < 0 \/ startDate > endDate))
        => /\ pc # "done"
           /\ SearchIdx = {}
           /\ metadata = <<>>

\* positions of the network operations in the log: page.goto of the portal,
\* the POST of a search, page.goto of a document
NetIdx == { i \in 1..Len(log) : log[i].op \in { "goto", "search", "download" } }

\* a wait lies between every two consecutive operations at the positions P
WaitsBetween(P) ==
    \A i, j \in P :
        (i < j /\ ~\E k \in P : i < k /\ k < j)
            => \E w \in (i + 1)..(j - 1) : log[w].op = "wait"

\* C27 as claimed: a wait separates every two consecutive network operations
\* of a run.
C27_WaitBetweenNetworkOperations == WaitsBetween(NetIdx)

\* C27 amended: a wait separates every two consecutive document downloads and
\* every two consecutive search requests, also across windows and after a
\* failed or empty page.
C27_WaitBetweenDownloadsAndBetweenSearches ==
    /\ WaitsBetween({ i \in 1..Len(log) : log[i].op = "download" })
    /\ WaitsBetween(SearchIdx)

\* C27 witness: a search failed, the first request of the next window
\* followed, and two documents were downloaded one after the other.
C27_Witness ==
    /\ \E i \in FailedWith(SearchErrors) : NextSearch(i) # 0
    /\ \E i \in 1..Len(log) : log[i].op = "download" /\
          \E j \in (i + 1)..Len(log) : log[j].op = "download"

\* C30: every ledger entry is a row of a search response whose text has no
\* exclude keyword and has an include keyword, which has a DocumentUrl, and
\* whose download returned a path; the ledger never has more entries than
\* downloads that returned a path.
C30_LedgerEntriesProvenance ==
    /\ Len(results) <= Len(Saved)
    /\ \A i \in 1..Len(results) :
          LET e == results[i] IN
          /\ \E doc \in Catalogue :
                /\ doc.CaseNumber = e.caseNumber /\ doc.Title = e.title
                /\ doc.Date = e.date /\ doc.DocumentUrl = e.url
                /\ RowIncluded(doc)
          /\ e.url # Undefined
          /\ \E k \in 1..Len(log) : log[k].op = "saved" /\ log[k].url = e.url
          /\ e.filepath[2] <= now

\* C30 witness: of a page with a row without DocumentUrl and a row with one,
\* both with an include keyword, the second is in the ledger.
C30_Witness ==
    /\ Len(results) = 1
    /\ Len(response) = 2
    /\ RowIncluded(response[1]) /\ response[1].DocumentUrl = Undefined
    /\ results[1].url = response[2].DocumentUrl

\* C28: a stop signal raised during a run takes effect between documents,
\* never while a download is awaited, and the ledger is flushed before the
\* process ends: after the stop, metadata.json holds every document whose
\* download returned a path.
C28_StopBetweenDocumentsThenFlush ==
    pc = "stopped" =>
        /\ ~(log # <<>> /\ log[Len(log)].op = "download")
        /\ results # <<>> => (metadata # <<>> /\ metadata[1].documents = results)

\* the operations of the given kind in the history of extractCookies
XIdx(op) == { i \in 1..Len(xlog) : xlog[i].op = op }

\* C25: when an anti-bot indicator is found on the entry page, extractCookies
\* waits and evaluates the indicators exactly once more before it goes on;
\* it does not throw because of the indicators.
C25_AntiBotRecheckedOnce ==
    (xpc = "extracted" /\ \E i \in XIdx("detect") : xlog[i].outcome = "anti-bot")
        => /\ Cardinality(XIdx("detect")) = 2
           /\ \A i, j \in XIdx("detect") :
                 i < j => \E w \in (i + 1)..(j - 1) : xlog[w].op = "wait"

\* C26: an extractCookies that returns has issued exactly one POST to the
\* search endpoint, whatever its outcome; it returns the cookies collected
\* after the POST, or, when that collection (or page.evaluate) rejected,
\* the cookies collected before it, unchanged; the command never fails
\* after the POST was issued.
C26_OneProbeThenCollect ==
    /\ xpc = "extracted" =>
          LET last  == xlog[Len(xlog)]
              first == CHOOSE i \in XIdx("cookies") : \A k \in XIdx("cookies") : i <= k
          IN  /\ Cardinality(XIdx("probe")) = 1
              /\ \A i \in XIdx("probe") : first < i
              /\ last.op \in { "cookies", "probe" }
              /\ (last.op = "cookies" /\ last.outcome = "ok") =>
                     (first < Len(xlog) /\ extracted_cookies = last.cookies)
              /\ (last.outcome = "threw") => extracted_cookies = xlog[first].cookies
    /\ (xpc = "reported" /\ result[1].success = FALSE) => XIdx("probe") = {}

\* C26 witness: the POST was answered HTTP 403, the cookies were collected
\* again and now hold pr_fp, which the first collection did not.
C26_Witness ==
    /\ xpc = "extracted"
    /\ \E i \in XIdx("probe") : xlog[i].outcome = "HTTP 403"
    /\ \E i \in XIdx("cookies") : xlog[i].outcome = "ok" /\ "pr_fp" \notin DOMAIN xlog[i].cookies
    /\ "pr_fp" \in DOMAIN extracted_cookies

\* ------------------------------------------------ claims on the command layer
\* the operations of a command that ended by throwing
Thrown == { i \in DOMAIN ops : /\ ops[i].op # "setCookie"
                               /\ ops[i].outcome \in { "launch threw", "page threw", "threw" } }

\* the operations of a command body that ended by throwing
ThrownInBody == { i \in Thrown : ops[i].op # "close" }

\* the printed objects {success: false, error: ...}
ErrorObjects == { k \in DOMAIN stdout : ~ stdout[k].success /\ "error" \in stdout[k].members }

\* the command is over: main resolved, or the process exited
Over == cpc \in { "resolved", "exited" }

\* C21: every command invocation prints exactly one JSON result object, on
\* every path, also when closing the browser throws in the finally block.
C21_ExactlyOneResultObject ==
    Over => Len(stdout) = 1

\* C22 as stated: the exit code is non-zero only when main rejected, and every
\* failure inside a command body (browser launch, cookie load, search,
\* date-range processing) is printed as {success: false, error} and leaves the
\* exit code at zero.
C22_BodyFailuresReportedExitZero ==
    /\ exitCode # 0 => cpc = "exited"
    /\ Over =>
         \A i \in DOMAIN ops :
            (i \in ThrownInBody \/ (ops[i].op = "loadCookies" /\ ops[i].outcome = "false")) =>
                /\ stdout[1] \in { Out(FALSE, m) : m \in { { "error" }, { "error", "message" } } }
                /\ exitCode = 0

\* C22 amended: the exit code is 1 exactly when main rejected, which is when
\* close rejected in the finally block, and 0 otherwise; every exception of
\* init, searchDocuments, processDateRange or the extractor is caught and
\* printed first as {success: false, error}; a failed loadCookies is no
\* exception: the command loadCookies prints {success: false, message} with
\* no error member.
C22_NonZeroExitOnlyWhenCloseRejects ==
    /\ exitCode \in { 0, 1 }
    /\ exitCode = 1 <=> cpc = "exited"
    /\ cpc = "exited" => ops[Len(ops)] = [op |-> "close", outcome |-> "threw"]
    /\ \A i \in ThrownInBody : stdout # << >> /\ stdout[1] = OutError
    /\ \A i \in DOMAIN ops :
          (ops[i].op = "loadCookies" /\ ops[i].outcome = "false"
              /\ args.command = "loadCookies") =>
                 stdout[1] = Out(FALSE, { "message" })

\* C22 witness: processDateRange threw, the error was printed, the browser
\* was closed and main resolved with exit code 0.
C22_Witness ==
    /\ cpc = "resolved"
    /\ exitCode = 0
    /\ \E i \in ThrownInBody : ops[i].op = "processDateRange"
    /\ ops[Len(ops)] = [op |-> "close", outcome |-> "ok"]
    /\ stdout = << OutError >>

\* C23: every printed object has a boolean success member, and every
\* exception of a parser or extractor operation has its own printed object
\* {success: false, error}: none ends the command without one.
C23_EveryThrowIsReported ==
    /\ \A k \in DOMAIN stdout : stdout[k].success \in BOOLEAN
    /\ Cardinality(Thrown) <= Cardinality(ErrorObjects)
    /\ Over => stdout # << >>
    /\ \A i \in ThrownInBody : ~ stdout[1].success /\ "error" \in stdout[1].members
    /\ (Over /\ ops # << >> /\ ops[Len(ops)].outcome = "threw") =>
          (~ stdout[Len(stdout)].success /\ "error" \in stdout[Len(stdout)].members)

\* C23 witness: searchDocuments threw and then close threw; both were printed.
C23_Witness ==
    /\ cpc = "exited"
    /\ \E i \in ThrownInBody : ops[i].op = "searchDocuments"
    /\ ops[Len(ops)] = [op |-> "close", outcome |-> "threw"]
    /\ stdout = << OutError, OutError >>

\* the file holds what saveCookies wrote
FileSaved == xpc = "saved" /\ cookies_file # << >>

\* C29: when saveCookies wrote the file, and loadCookies is then called with
\* its path on a parser whose page accepts the cookies, loadCookies returns
\* true, this.cookies is the map that was saved, and the page got exactly one
\* cookie per name, with the value saved under that name.
C29_SavedCookiesLoadBack ==
    \A i \in DOMAIN ops :
       (/\ ops[i].op = "loadCookies"
        /\ FileSaved
        /\ args.cookies_file = "path"
        /\ ~ (i > 1 /\ ops[i - 1] = [op |-> "setCookie", outcome |-> "threw"])) =>
           /\ ops[i].outcome = "true"
           /\ cookies = << extracted_cookies >>
           /\ \A n \in DOMAIN extracted_cookies :
                 \E c \in pageCookies : c.name = n /\ c.value = extracted_cookies[n]
           /\ \A c \in pageCookies : c.name \in DOMAIN extracted_cookies
           /\ Cardinality(pageCookies) = Cardinality(DOMAIN extracted_cookies)

\* C29 witness: a map with pr_fp and another cookie was saved and loaded back.
C29_Witness ==
    /\ FileSaved
    /\ \E i \in DOMAIN ops : ops[i].op = "loadCookies" /\ ops[i].outcome = "true"
    /\ "pr_fp" \in DOMAIN extracted_cookies
    /\ Cardinality(DOMAIN extracted_cookies) >= 2
    /\ cookies = << extracted_cookies >>

\* --------------------------------------------------- claims on termination
\* a step that leaves a window: the window loop tests its condition again
LeavesWindow ==
    /\ pc \in { "page", "searching", "downloading" }
    /\ pc' = "done" \/ (pc' = "page" /\ page' = 1)

\* the window start is two days later after every window, however it ended
WindowAdvances ==
    LeavesWindow => /\ currentDate' = currentDate + WindowDays * TicksPerDay
                    /\ currentDate' > currentDate

\* metadata.json is written by the step that ends processDateRange, only
LedgerWrittenAtEnd ==
    metadata' # metadata => /\ pc # "done" /\ pc' = "done"
                            /\ metadata'[1].documents = results'

LoadReturns == Len(ops') > Len(ops) /\ ops'[Len(ops')].op = "loadCookies"

\* page.setCookie was awaited in that step, and how it ended
SetCookieEnded(outcome) ==
    /\ Len(ops') = Len(ops) + 2
    /\ ops'[Len(ops') - 1] = [op |-> "setCookie", outcome |-> outcome]

\* C32: loadCookies never throws: it returns true or false; when the cookie
\* file is missing, is no valid JSON, or page.setCookie fails, it returns
\* false and this.cookies is what it was; it returns true and this.cookies is
\* the map of the file only after page.setCookie was awaited and accepted the
\* cookies, one per member of the file.
C32_LoadCookiesFailsClosed ==
    [][LoadReturns =>
        LET out == ops'[Len(ops')].outcome IN
        /\ out \in { "true", "false" }
        /\ ( \/ cookies_file = << >>
             \/ ~ IsJSON(cookies_file[1])
             \/ SetCookieEnded("threw") ) => out = "false"
        /\ out = "false" => cookies' = cookies
        /\ out = "true" =>
              /\ SetCookieEnded("ok")
              /\ cookies' = << ParseJSON(cookies_file[1]) >>
              /\ \A n \in DOMAIN cookies'[1] :
                    \E c \in pageCookies' : c.name = n /\ c.value = cookies'[1][n]
    ]_vars

\* C32 witness: a map with pr_fp was loaded; the file then held another map,
\* page.setCookie rejected it, loadCookies returned false and this.cookies is
\* still the first map.
C32_Witness ==
    /\ cookies # << >> /\ "pr_fp" \in DOMAIN cookies[1]
    /\ cookies_file # << >> /\ IsJSON(cookies_file[1])
    /\ cookies[1] # ParseJSON(cookies_file[1])
    /\ Len(ops) >= 4
    /\ ops[Len(ops)] = [op |-> "loadCookies", outcome |-> "false"]
    /\ ops[Len(ops) - 1] = [op |-> "setCookie", outcome |-> "threw"]

\* ------------------------------------------------ claims on the arguments
\* the command line lacks an argument its command requires, or names no
\* command of the parser
MissingArgument ==
    \/ args.command = "loadCookies" /\ args.cookies_file = "absent"
    \/ args.command = "searchDocuments" /\ ~ args.params
    \/ args.command = "processDateRange" /\ ~ args.dates
    \/ args.command = "help"

\* C33: a command without an argument it requires (loadCookies without
\* cookies_file, searchDocuments without params, processDateRange without
\* start_date or end_date) and an unknown command print success = false with
\* an error; searchDocuments and processDateRange are never called, so no
\* search request is sent, nothing is downloaded and no ledger is written.
C33_MissingArgumentDoesNothing ==
    (cpc # "idle" /\ MissingArgument) =>
        /\ \A i \in DOMAIN ops :
              ops[i].op \notin { "searchDocuments", "processDateRange" }
        /\ args.cookies_file = "absent" =>
              \A i \in DOMAIN ops : ops[i].op # "loadCookies"
        /\ \A k \in DOMAIN stdout : k \in ErrorObjects
        /\ Over => stdout # << >>
        /\ log = << >> /\ results = << >> /\ metadata = << >>

\* C33 witness: processDateRange was given a cookie file and no dates; the
\* browser was launched, the cookies were read, the error was printed and
\* the command ended.
C33_Witness ==
    /\ cpc = "resolved"
    /\ args.command = "processDateRange" /\ ~ args.dates
    /\ \E i \in DOMAIN ops : ops[i].op = "loadCookies"
    /\ stdout = << OutError >>


\* ------------------------------------------------- claims on the browser
\* puppeteer.launch resolved in this invocation
Launched == \E i \in DOMAIN ops : ops[i].op = "init" /\ ops[i].outcome # "launch threw"

\* the calls of browser.close()
Closes == { i \in DOMAIN ops : ops[i].op = "close" }

\* C34: every invocation that launched a browser goes on to close it, once,
\* after a result and after every failure that follows the launch: when the
\* invocation is over the browser is closed, or browser.close() itself
\* rejected and the process exited; an invocation that launched none (getStats,
\* close, an unknown command, a failed launch) calls no browser.close().
C34_LaunchedBrowserIsClosed ==
    /\ [](browser = "open" => <>(Over /\ Closes # {}))
    /\ [](Over => /\ Cardinality(Closes) = IF Launched THEN 1 ELSE 0
                  /\ Launched => \/ browser = "closed"
                                 \/ /\ cpc = "exited"
                                    /\ ops[Len(ops)] = [op |-> "close", outcome |-> "threw"])
    /\ [](args.command \in { "getStats", "close" } => browser = "null" /\ Closes = {})

\* C34 witness: the page could not be opened after the launch, the error was
\* printed and the browser closed.
C34_Witness ==
    /\ cpc = "resolved"
    /\ \E i \in DOMAIN ops : ops[i].op = "init" /\ ops[i].outcome = "page threw"
    /\ browser = "closed"
    /\ stdout = << OutError >>

\* ------------------------------------------------------- claims on getStats
\* a step in which getStats returns, and the object it returns
GetStatsReturns == Len(ops') = Len(ops) + 1 /\ ops'[Len(ops')].op = "getStats"

\* C35: getStats never throws and leaves metadata.json as it is; without a
\* metadata.json, or with one that cannot be parsed, it returns
\* {total_documents: 0, last_update: null}; else it returns the
\* total_documents and processed_at of the file, which after a run of
\* processDateRange on the docsDir are the number of documents of that run
\* and the time it wrote the ledger, not those of an earlier run.
C35_GetStatsReadsLatestLedger ==
    [][GetStatsReturns =>
        LET value == ops'[Len(ops')].value IN
        /\ ops'[Len(ops')].outcome = "returned"
        /\ metadata' = metadata
        /\ (metadata = << >> \/ metadata = << UnreadableLedger >>) => value = NoStats
        /\ (metadata # << >> /\ metadata # << UnreadableLedger >>) =>
              /\ value.total_documents = metadata[1].total_documents
              /\ value.last_update = << metadata[1].processed_at >>
        /\ pc = "done" =>
              /\ value.total_documents = Len(results)
              /\ value.last_update = << now >>
    ]_vars

\* C35 witness: getStats returned the one document of the earlier run, then
\* a run that downloaded nothing wrote its ledger, and getStats returned 0
\* documents and the time of that run.
C35_Witness ==
    /\ pc = "done" /\ results = << >>
    /\ log # << >>
    /\ Len(ops) = 2
    /\ ops[1].value.total_documents = 1
    /\ ops[2].value = [total_documents |-> 0, last_update |-> << now >>]

\* ------------------------------------------------- claims on the session
\* loadCookies was awaited and returned false
LoadFailed ==
    \E i \in DOMAIN ops : ops[i] = [op |-> "loadCookies", outcome |-> "false"]

\* the operation of the command was awaited and returned
BodyReturned ==
    \E i \in DOMAIN ops : ops[i] = [op |-> args.command, outcome |-> "returned"]

\* C36: in the commands searchDocuments and processDateRange the value
\* loadCookies returns is not looked at: after it returned false, no cookie
\* is set on the page and none is stored, nothing is printed for it, the
\* operation of the command is awaited all the same, and when that returns
\* the command prints success = true.
C36_LoadFailureIsIgnored ==
    (LoadFailed /\ args.command \in { "searchDocuments", "processDateRange" }) =>
        /\ cookies = << >> /\ pageCookies = {}
        /\ cpc = "body" => stdout = << >>
        /\ cpc # "body" => \E i \in DOMAIN ops : ops[i].op = args.command
        /\ Searches # << >> => args.command = "processDateRange"
        /\ BodyReturned => stdout[1] = Out(TRUE, { "data" })

\* C36 witness: the cookie file was no JSON, processDateRange sent its search
\* requests, downloaded a document and the command printed success = true.
C36_Witness ==
    /\ LoadFailed
    /\ cookies_file = << InvalidJSON >>
    /\ args.command = "processDateRange"
    /\ Searches # << >> /\ Len(results) >= 1
    /\ cpc = "resolved"
    /\ stdout = << Out(TRUE, { "data" }) >>

\* a step of processDateRange, searchDocuments or downloadPDF
CrawlStep == pc # "idle" /\ (pc' # pc \/ log' # log)

DateOr(date, default) ==
    IF date = NoDate \/ date = InvalidDateString THEN default ELSE date

\* C37: getApiDates returns DateFrom <= DateTo; a missing or unparsable
\* dateFrom counts as 1 January of the current year and a missing or
\* unparsable dateTo as today, and the two are swapped when the first is
\* later than the second.
C37_DefaultsThenOrdered ==
    apiDates # << >> =>
        LET call == apiDates[1]
            january1 == GetFullYear(call.today, call.zone) * YearDays
            from == DateOr(call.dateFrom, january1)
            to == DateOr(call.dateTo, ToISODate(call.today))
        IN  /\ call.value.DateFrom[1] <= call.value.DateTo[1]
            /\ call.value = IF from > to THEN [DateFrom |-> << to >>, DateTo |-> << from >>]
                            ELSE [DateFrom |-> << from >>, DateTo |-> << to >>]

=============================================================================
